---- MODULE Spec2Model ----
(***************************************************************************)
(* A model of the script-to-clip pipeline of autoappv2 (python/):          *)
(*   - api_wrapper.main, its task functions and the events they print,    *)
(*   - _seq._parse_script and _seq._clean_text,                            *)
(*   - safe_kernel.execute_safe and the external process it runs,          *)
(*   - the stop flags and their set_stop_signal mutators,                  *)
(*   - the cutting loops (_cutting_loop, _image_flow_loop) and the         *)
(*     workflows that drive them (process_workflow, process_image_flow),   *)
(*   - the sequence aligner _match_words_to_script,                        *)
(*   - core/model_manager.py and the transcription step that uses its      *)
(*     model cache, and the hand-over to the cutting phase,                *)
(*   - async_logger.py: the queue, its consumer thread and shutdown.       *)
(* Python strings are TLA+ strings; the code's character-wise operations   *)
(* (upper, lower, re.sub, SequenceMatcher) work on them through SubSeq.    *)
(***************************************************************************)
EXTENDS Integers, Sequences, FiniteSets, TLC

VARIABLES
    \* ---- safe_kernel.py -------------------------------------------------
    kpc,          \* position of the thread inside execute_safe
    kargs,        \* the arguments of the current call
    _STOP_FLAG,   \* safe_kernel._STOP_FLAG
    proc,         \* the external process: none, running, closed, exited
    procRc,       \* its return code once exited
    pipe,         \* lines written to stderr and not yet read
    written,      \* every line the process has written so far
    stderr_acc,   \* the lines execute_safe has read
    elapsed,      \* time.time() - start, in timeout units
    termSent,     \* proc.terminate() was called
    killed,       \* proc.kill() was called
    koutcome,     \* how the call ended: a raised error or the returned cp
    lastFailed,   \* content of last_failed_cmd.txt, per directory
    \* ---- engines/sk1_cutting.py, engines/sk3_image_flow.py ---------------
    STOP_FLAG,    \* the engine module's STOP_FLAG
    mode,         \* the engine of the run: sk1 (video cut) or sk3 (image flow)
    wpc,          \* position inside process_workflow / process_image_flow
    runResult,    \* how the workflow ended
    matches,      \* the matched segments handed to the loop (their ids)
    encoder,      \* (enc_name, enc_preset) returned by get_best_encoder
    files,        \* sk3: the visual files, TRUE where ffprobe reads the file
    lpc,          \* position inside _cutting_loop / _image_flow_loop
    job,          \* the transcoder job the loop is running
    idx,          \* the loop's segment index (enumerate from 1)
    processed,    \* the loop's count of processed clips
    cursor,       \* sk3: the round-robin cursor into files
    picked,       \* sk3: the file picked for the current segment
    logs,         \* what the loop passed to log_func, in order
    loopExc,      \* the exception that left the loop, if any
    attempts,     \* history: every call of ffmpeg_runner and how it ended
    outFiles,     \* output files written by jobs that exited with 0
    stopRequested,\* history: a set_stop_signal(True) call was made during this run
    stopSeg,      \* history: the segment in progress at the first stop request
    \* ---- _seq.py: _match_words_to_script
    all_words,    \* the transcribed word entries
    script_items, \* the parsed script: (vid, text) in order
    apc,          \* where the aligner is
    item_idx,     \* position of the current script item (from 1)
    word_ptr,     \* the word cursor (0-based, as in the code)
    target,       \* the cleaned text of the current item
    collected,    \* the buffer of the current item
    current_words,\* indices into all_words of the dict entries collected
    aligned,      \* the list `matches` the aligner returns
    used,         \* history: the word indices of each emitted segment
    aerr,         \* the exception that ended the aligner, if any
    iters,        \* history: iterations of the accumulation loop so far
    ratio_arg,    \* history: what the last iteration gave to SequenceMatcher
    \* ---- api_wrapper.py: main and the task functions
    events,       \* the types of the result / error events emitted on stdout
    exitCode,     \* the exit status of the process, once it has exited
    \* ---- _seq.py: _parse_script and _clean_text applied to a text
    txt,          \* the input text
    tpc,          \* which of the two functions have been applied
    parsed,       \* _parse_script(txt)
    cleaned,      \* _clean_text(txt)
    recleaned,    \* _clean_text(_clean_text(txt))
    \* ---- core/model_manager.py, process_task._dev_transcribe_pipeline ----
    MODEL_CACHE,  \* model_manager.MODEL_CACHE
    loads,        \* history: calls of load_model_fn so far
    calls,        \* history: calls of _dev_transcribe_pipeline so far
    tlast,        \* history: the last call of the pipeline and what it did
    handover,     \* ai_to_ffmpeg_handover has completed in this run
    \* ---- CONFIG of the engines
    video_source_dir, \* CONFIG["video_source_dir"]
    \* ---- async_logger.py
    _log_queue,   \* the queue: message ids, None for the sentinel
    _shutdown,    \* async_logger._shutdown
    wkpc,         \* where the consumer thread _log_worker is
    payload,      \* the consumer's local payload
    sys_stdout,   \* the lines the consumer has printed, as message ids
    dropped,      \* history: the messages whose write raised
    emitted,      \* history: number of emit_async calls (messages are 1..emitted)
    sdpc,         \* where the caller of shutdown() is
    shutAt        \* history: emitted when shutdown() was called

kernelVars == <<kpc, kargs, _STOP_FLAG, proc, procRc, pipe, written,
                stderr_acc, elapsed, termSent, killed, koutcome, lastFailed>>

pipelineVars == <<STOP_FLAG, mode, wpc, runResult, matches, encoder, files,
                  lpc, job, idx, processed, cursor, picked, logs, loopExc,
                  attempts, outFiles, stopRequested, stopSeg>>

alignVars == <<all_words, script_items, apc, item_idx, word_ptr, target,
               collected, current_words, aligned, used, aerr, iters, ratio_arg>>

wrapperVars == <<events, exitCode>>

textVars == <<txt, tpc, parsed, cleaned, recleaned>>

managerVars == <<MODEL_CACHE, loads, calls, tlast, handover>>

configVars == <<video_source_dir>>

loggerVars == <<_log_queue, _shutdown, wkpc, payload, sys_stdout, dropped,
                emitted, sdpc, shutAt>>

vars == <<kernelVars, pipelineVars, alignVars, wrapperVars, textVars,
          managerVars, configVars, loggerVars>>

(***************************************************************************)
(* Bounds of the model.                                                    *)
(***************************************************************************)
MaxLines == 1      \* lines an external process writes to stderr
MaxTime  == 2      \* clock ticks observed during one call
PipeCap  == 1      \* lines the stderr pipe holds before the writer blocks
MaxSegs  == 2      \* matched segments of a run
MaxFiles == 2      \* visual files of an image-flow run
MaxWords == 3      \* entries of all_words
MaxItems == 2      \* items of the script
MaxTokens == 3     \* pieces of a text given to _parse_script and _clean_text
MaxCalls == 3      \* calls of _dev_transcribe_pipeline in one process
MaxMsgs == 3       \* calls of emit_async in one process

(***************************************************************************)
(* safe_kernel.py                                                          *)
(***************************************************************************)
NoTimeout == -1

Timeouts == {NoTimeout, 1}

Dirs == {"cwd", "app_root"}

NoCwd == "None"

Cmds == {<<"ffmpeg", "-y", "a.mp3">>, <<"ffprobe", "x.png">>}

ReturnCodes == {0, 1}

NoFile == "<absent>"

NoOutcome == [kind |-> "none"]

RECURSIVE JoinWith(_, _)
JoinWith(seq, sep) ==
    IF seq = <<>> THEN ""
    ELSE IF Len(seq) = 1 THEN seq[1]
    ELSE seq[1] \o sep \o JoinWith(Tail(seq), sep)

\* safe_kernel._is_stopped
_is_stopped == _STOP_FLAG

\* safe_kernel._cmd_to_args, for a list argument
_cmd_to_args(cmd) == cmd

\* safe_kernel._cmd_to_str, for a sequence argument
_cmd_to_str(cmd) == JoinWith(cmd, " ")

\* base_dir = cwd or os.getcwd()
BaseDir(cwd) == IF cwd = NoCwd THEN "cwd" ELSE cwd

\* a failure path that leaves the artifact as it was
_write_last_failed_cmd_skip(cmd, cwd) == lastFailed

\* safe_kernel._write_last_failed_cmd: the file after the write
_write_last_failed_cmd(cmd, cwd) ==
    [lastFailed EXCEPT ![BaseDir(cwd)] = _cmd_to_str(cmd)]

LastFailedPath(cwd) == BaseDir(cwd) \o "/last_failed_cmd.txt"

\* clip() inside _raise_ffmpeg_crash
clip(s, max_len) ==
    IF Len(s) <= max_len THEN s
    ELSE SubSeq(s, 1, max_len) \o "\n...[TRUNCATED]...\n"

ClipDefault == 8000

ClipCmd == 4000

\* The line the process writes as its n-th
StderrLine(n) == "err" \o ToString(n) \o "\n"

\* "".join(stderr_acc)
JoinLines(lines) == JoinWith(lines, "")

Raised(kind) == [kind |-> kind]

\* RuntimeError raised by _raise_cmd_not_found
CmdNotFoundError(cmd, cwd) ==
    [kind |-> "CMD NOT FOUND", cmd |-> IF cmd = <<>> THEN "" ELSE cmd[1],
     last |-> LastFailedPath(cwd)]

\* RuntimeError raised by _raise_ffmpeg_crash
CrashError(cmd, stderr, stdout, returncode, cwd) ==
    [kind |-> "FFMPEG CRASHED", cmd |-> clip(_cmd_to_str(cmd), ClipCmd),
     stderr |-> clip(stderr, ClipDefault), stdout |-> clip(stdout, ClipDefault),
     returncode |-> returncode, last |-> LastFailedPath(cwd)]

\* subprocess.CompletedProcess returned by execute_safe
CompletedProcess(args, returncode, stdout, stderr) ==
    [kind |-> "RETURN", args |-> args, returncode |-> returncode,
     stdout |-> stdout, stderr |-> stderr]

NoArgs == [cmd |-> <<>>, cwd |-> NoCwd, timeout |-> NoTimeout,
           stream |-> TRUE, check |-> TRUE]

KernelInit ==
    /\ kpc = "idle"
    /\ kargs = NoArgs
    /\ _STOP_FLAG = FALSE
    /\ proc = "none"
    /\ procRc = 0
    /\ pipe = <<>>
    /\ written = <<>>
    /\ stderr_acc = <<>>
    /\ elapsed = 0
    /\ termSent = FALSE
    /\ killed = FALSE
    /\ koutcome = NoOutcome
    /\ lastFailed = [d \in Dirs |-> NoFile]

\* The call of execute_safe(cmd, cwd=, timeout=, stream=, check=)
BeginCall(cmd, cwd, timeout, stream, check) ==
    /\ kpc' = "entry"
    /\ kargs' = [cmd |-> cmd, cwd |-> cwd, timeout |-> timeout,
                 stream |-> stream, check |-> check]
    /\ UNCHANGED <<_STOP_FLAG, proc, procRc, pipe, written, stderr_acc, elapsed,
                   termSent, killed, koutcome, lastFailed>>

\* The caller has the result: the call's locals and its process are gone
EndCall ==
    /\ kpc' = "idle"
    /\ kargs' = NoArgs
    /\ proc' = "none"
    /\ procRc' = 0
    /\ pipe' = <<>>
    /\ written' = <<>>
    /\ stderr_acc' = <<>>
    /\ elapsed' = 0
    /\ termSent' = FALSE
    /\ killed' = FALSE
    /\ koutcome' = NoOutcome
    /\ UNCHANGED <<_STOP_FLAG, lastFailed>>

Raise(err) ==
    /\ kpc' = "done"
    /\ koutcome' = err

\* execute_safe without the stop check of lines 113-114
KEntry_nocheck ==
    /\ kpc = "entry"
    /\ kpc' = "spawn"
    /\ UNCHANGED <<kargs, _STOP_FLAG, proc, procRc, pipe, written, stderr_acc,
                   elapsed, termSent, killed, koutcome, lastFailed>>
    /\ UNCHANGED <<pipelineVars, alignVars, wrapperVars, textVars>>
    /\ UNCHANGED <<managerVars, configVars, loggerVars>>

\* lines 113-116: the stop check before launch
KEntry ==
    /\ kpc = "entry"
    /\ IF _is_stopped
       THEN Raise(Raised("STOPPED"))
       ELSE kpc' = "spawn" /\ UNCHANGED koutcome
    /\ UNCHANGED <<kargs, _STOP_FLAG, proc, procRc, pipe, written, stderr_acc,
                   elapsed, termSent, killed, lastFailed>>
    /\ UNCHANGED <<pipelineVars, alignVars, wrapperVars, textVars>>
    /\ UNCHANGED <<managerVars, configVars, loggerVars>>

\* lines 134-149 and 183-201: subprocess.run / subprocess.Popen starts the
\* process, or fails with FileNotFoundError / OSError
KSpawn ==
    /\ kpc = "spawn"
    /\ \E found \in BOOLEAN :
         IF found
         THEN /\ proc' = "running"
              /\ kpc' = IF kargs.stream THEN "looptop" ELSE "run"
              /\ UNCHANGED <<koutcome, lastFailed>>
         ELSE /\ lastFailed' = _write_last_failed_cmd(_cmd_to_args(kargs.cmd), kargs.cwd)
              /\ Raise(CmdNotFoundError(_cmd_to_args(kargs.cmd), kargs.cwd))
              /\ UNCHANGED proc
    /\ UNCHANGED <<kargs, _STOP_FLAG, procRc, pipe, written, stderr_acc,
                   elapsed, termSent, killed>>
    /\ UNCHANGED <<pipelineVars, alignVars, wrapperVars, textVars>>
    /\ UNCHANGED <<managerVars, configVars, loggerVars>>

\* proc.terminate(); proc.wait(timeout=2); proc.kill() on a wait that times out
Terminate ==
    /\ termSent' = TRUE
    /\ IF proc = "exited"
       THEN UNCHANGED <<proc, procRc, killed>>
       ELSE /\ proc' = "exited"
            /\ procRc' = 1
            /\ \E graceful \in BOOLEAN : killed' = ~graceful

TimedOut ==
    kargs.timeout # NoTimeout /\ elapsed > kargs.timeout

\* lines 206-230: the top of the polling loop
KLoopTop ==
    /\ kpc = "looptop"
    /\ IF _is_stopped
       THEN Terminate /\ Raise(Raised("STOPPED"))
       ELSE IF TimedOut
       THEN Terminate /\ Raise(Raised("TIMEOUT"))
       ELSE /\ kpc' = "read"
            /\ UNCHANGED <<proc, procRc, termSent, killed, koutcome>>
    /\ UNCHANGED <<kargs, _STOP_FLAG, pipe, written, stderr_acc, elapsed, lastFailed>>
    /\ UNCHANGED <<pipelineVars, alignVars, wrapperVars, textVars>>
    /\ UNCHANGED <<managerVars, configVars, loggerVars>>

\* line 232: proc.stderr.readline() returns once a line or end-of-file is there
ReadlineReady == pipe # <<>> \/ proc \in {"closed", "exited"}

\* a loop that polls before it reads: an exited process ends the loop
KRead_pollfirst ==
    /\ kpc = "read"
    /\ ReadlineReady
    /\ IF proc = "exited"
       THEN /\ kpc' = "final"
            /\ UNCHANGED <<stderr_acc, pipe>>
       ELSE IF pipe # <<>>
       THEN /\ stderr_acc' = Append(stderr_acc, Head(pipe))
            /\ pipe' = Tail(pipe)
            /\ kpc' = "looptop"
       ELSE /\ kpc' = "looptop"
            /\ UNCHANGED <<stderr_acc, pipe>>
    /\ UNCHANGED <<kargs, _STOP_FLAG, proc, procRc, written, elapsed,
                   termSent, killed, koutcome, lastFailed>>
    /\ UNCHANGED <<pipelineVars, alignVars, wrapperVars, textVars>>
    /\ UNCHANGED <<managerVars, configVars, loggerVars>>

\* lines 232-243: read one line, or see end-of-file and poll
KRead ==
    /\ kpc = "read"
    /\ ReadlineReady
    /\ IF pipe # <<>>
       THEN /\ stderr_acc' = Append(stderr_acc, Head(pipe))
            /\ pipe' = Tail(pipe)
            /\ kpc' = "looptop"
       ELSE /\ kpc' = IF proc = "exited" THEN "final" ELSE "looptop"
            /\ UNCHANGED <<stderr_acc, pipe>>
    /\ UNCHANGED <<kargs, _STOP_FLAG, proc, procRc, written, elapsed,
                   termSent, killed, koutcome, lastFailed>>
    /\ UNCHANGED <<pipelineVars, alignVars, wrapperVars, textVars>>
    /\ UNCHANGED <<managerVars, configVars, loggerVars>>

\* subprocess.run: communicate() drains stderr while the process runs
KCommunicate ==
    /\ kpc = "run"
    /\ pipe # <<>>
    /\ stderr_acc' = stderr_acc \o pipe
    /\ pipe' = <<>>
    /\ UNCHANGED <<kpc, kargs, _STOP_FLAG, proc, procRc, written, elapsed,
                   termSent, killed, koutcome, lastFailed>>
    /\ UNCHANGED <<pipelineVars, alignVars, wrapperVars, textVars>>
    /\ UNCHANGED <<managerVars, configVars, loggerVars>>

\* subprocess.run returns once the process has exited and stderr is drained
KRunDone ==
    /\ kpc = "run"
    /\ proc = "exited"
    /\ pipe = <<>>
    /\ kpc' = "final"
    /\ UNCHANGED <<kargs, _STOP_FLAG, proc, procRc, pipe, written, stderr_acc,
                   elapsed, termSent, killed, koutcome, lastFailed>>
    /\ UNCHANGED <<pipelineVars, alignVars, wrapperVars, textVars>>
    /\ UNCHANGED <<managerVars, configVars, loggerVars>>

\* lines 150-152: subprocess.run kills the process and raises TimeoutExpired
KRunTimeout ==
    /\ kpc = "run"
    /\ proc # "exited"
    /\ TimedOut
    /\ proc' = "exited"
    /\ procRc' = 1
    /\ killed' = TRUE
    /\ lastFailed' = _write_last_failed_cmd(_cmd_to_args(kargs.cmd), kargs.cwd)
    /\ Raise([kind |-> "TIMEOUT", last |-> LastFailedPath(kargs.cwd)])
    /\ UNCHANGED <<kargs, _STOP_FLAG, pipe, written, stderr_acc, elapsed, termSent>>
    /\ UNCHANGED <<pipelineVars, alignVars, wrapperVars, textVars>>
    /\ UNCHANGED <<managerVars, configVars, loggerVars>>

\* lines 158-164 and 245-260: after the process has exited
KFinal ==
    /\ kpc = "final"
    /\ IF _is_stopped
       THEN Raise(Raised("STOPPED")) /\ UNCHANGED lastFailed
       ELSE IF kargs.check /\ procRc # 0
       THEN /\ lastFailed' = _write_last_failed_cmd(_cmd_to_args(kargs.cmd), kargs.cwd)
            /\ Raise(CrashError(_cmd_to_args(kargs.cmd), JoinLines(stderr_acc), "",
                                procRc, kargs.cwd))
       ELSE /\ Raise(CompletedProcess(_cmd_to_args(kargs.cmd), procRc,
                                      "", JoinLines(stderr_acc)))
            /\ UNCHANGED lastFailed
    /\ UNCHANGED <<kargs, _STOP_FLAG, proc, procRc, pipe, written, stderr_acc,
                   elapsed, termSent, killed>>
    /\ UNCHANGED <<pipelineVars, alignVars, wrapperVars, textVars>>
    /\ UNCHANGED <<managerVars, configVars, loggerVars>>

\* Every step execute_safe itself takes
KernelStep ==
    \/ KEntry
    \/ KSpawn
    \/ KLoopTop
    \/ KRead
    \/ KCommunicate
    \/ KRunDone
    \/ KRunTimeout
    \/ KFinal

(***************************************************************************)
(* The external process and the clock.                                     *)
(***************************************************************************)
ProcAlive == proc \in {"running", "closed"}

\* The process writes one line to stderr; a full pipe blocks it
ProcWrite ==
    /\ proc = "running"
    /\ kpc \in {"looptop", "read", "run"}
    /\ Len(written) < MaxLines
    /\ Len(pipe) < PipeCap
    /\ pipe' = Append(pipe, StderrLine(Len(written) + 1))
    /\ written' = Append(written, StderrLine(Len(written) + 1))
    /\ UNCHANGED <<kpc, kargs, _STOP_FLAG, proc, procRc, stderr_acc, elapsed,
                   termSent, killed, koutcome, lastFailed>>
    /\ UNCHANGED <<pipelineVars, alignVars, wrapperVars, textVars>>
    /\ UNCHANGED <<managerVars, configVars, loggerVars>>

\* The process closes its stderr and keeps running
ProcClose ==
    /\ proc = "running"
    /\ kpc \in {"looptop", "read", "run"}
    /\ proc' = "closed"
    /\ UNCHANGED <<kpc, kargs, _STOP_FLAG, procRc, pipe, written, stderr_acc,
                   elapsed, termSent, killed, koutcome, lastFailed>>
    /\ UNCHANGED <<pipelineVars, alignVars, wrapperVars, textVars>>
    /\ UNCHANGED <<managerVars, configVars, loggerVars>>

\* The process exits by itself
ProcExit ==
    /\ ProcAlive
    /\ kpc \in {"looptop", "read", "run"}
    /\ \E rc \in ReturnCodes : procRc' = rc
    /\ proc' = "exited"
    /\ UNCHANGED <<kpc, kargs, _STOP_FLAG, pipe, written, stderr_acc, elapsed,
                   termSent, killed, koutcome, lastFailed>>
    /\ UNCHANGED <<pipelineVars, alignVars, wrapperVars, textVars>>
    /\ UNCHANGED <<managerVars, configVars, loggerVars>>

\* Time passes while the call waits for the process
Tick ==
    /\ kpc \in {"looptop", "read", "run"}
    /\ kargs.timeout # NoTimeout
    /\ elapsed < MaxTime
    /\ elapsed' = elapsed + 1
    /\ UNCHANGED <<kpc, kargs, _STOP_FLAG, proc, procRc, pipe, written,
                   stderr_acc, termSent, killed, koutcome, lastFailed>>
    /\ UNCHANGED <<pipelineVars, alignVars, wrapperVars, textVars>>
    /\ UNCHANGED <<managerVars, configVars, loggerVars>>

\* safe_kernel.set_stop_signal(True)
KernelSetStop ==
    /\ ~_STOP_FLAG
    /\ _STOP_FLAG' = TRUE
    /\ UNCHANGED <<kpc, kargs, proc, procRc, pipe, written, stderr_acc, elapsed,
                   termSent, killed, koutcome, lastFailed>>
    /\ UNCHANGED <<pipelineVars, alignVars, wrapperVars, textVars>>
    /\ UNCHANGED <<managerVars, configVars, loggerVars>>

(***************************************************************************)
(* _seq.py: _parse_script.                                                 *)
(***************************************************************************)
\* the whitespace of \s and of str.strip() that a script holds
Whitespace == {" ", "\t", "\n", "\r", "\f"}

Digits == "0123456789"

\* \d
IsDigit(c) == \E d \in 1..10 : SubSeq(Digits, d, d) = c

\* int(m[0]) of a string of digits
RECURSIVE int(_)
int(ds) ==
    IF Len(ds) = 0 THEN 0
    ELSE 10 * int(SubSeq(ds, 1, Len(ds) - 1))
         + (CHOOSE d \in 1..10 : SubSeq(Digits, d, d) = SubSeq(ds, Len(ds), Len(ds))) - 1

\* the first position from i on whose character is not a digit (\d+ is greedy)
RECURSIVE DigitsEnd(_, _)
DigitsEnd(s, i) ==
    IF i <= Len(s) /\ IsDigit(SubSeq(s, i, i)) THEN DigitsEnd(s, i + 1) ELSE i

\* the first position from i on whose character is not whitespace (\s* is greedy)
RECURSIVE SpaceEnd(_, _)
SpaceEnd(s, i) ==
    IF i <= Len(s) /\ SubSeq(s, i, i) \in Whitespace THEN SpaceEnd(s, i + 1) ELSE i

\* the first position from i on whose character is "[" ([^\[]+ is greedy)
RECURSIVE BracketAt(_, _)
BracketAt(s, i) ==
    IF i <= Len(s) /\ SubSeq(s, i, i) # "[" THEN BracketAt(s, i + 1) ELSE i

\* \[[Vv](\d+)\] at position i: the position of its "]", 0 when it is not there
MarkerEnd(s, i) ==
    IF /\ i + 3 <= Len(s)
       /\ SubSeq(s, i, i) = "["
       /\ SubSeq(s, i + 1, i + 1) \in {"V", "v"}
       /\ IsDigit(SubSeq(s, i + 2, i + 2))
    THEN LET j == DigitsEnd(s, i + 2)
         IN  IF j <= Len(s) /\ SubSeq(s, j, j) = "]" THEN j ELSE 0
    ELSE 0

\* str.strip()
RECURSIVE strip(_)
strip(s) ==
    IF Len(s) = 0 THEN s
    ELSE IF SubSeq(s, 1, 1) \in Whitespace THEN strip(SubSeq(s, 2, Len(s)))
    ELSE IF SubSeq(s, Len(s), Len(s)) \in Whitespace THEN strip(SubSeq(s, 1, Len(s) - 1))
    ELSE s

\* where group 2 of the pattern starts for a marker ending at j: after the
\* whitespace, or, when no character other than "[" follows it, on the last
\* whitespace character (\s* gives one back); 0 when the pattern fails
TextStart(s, j) ==
    LET k == SpaceEnd(s, j + 1)
    IN  IF k <= Len(s) /\ SubSeq(s, k, k) # "[" THEN k
        ELSE IF k > j + 1 THEN k - 1
        ELSE 0

\* re.findall(pattern, content, re.DOTALL) from position i on, each match
\* turned into (int(m[0]), m[1].strip())
RECURSIVE findall(_, _)
findall(s, i) ==
    IF i > Len(s) THEN <<>>
    ELSE LET j == MarkerEnd(s, i)
             g == IF j = 0 THEN 0 ELSE TextStart(s, j)
         IN  IF g = 0 THEN findall(s, i + 1)
             ELSE LET e == BracketAt(s, g)
                  IN  <<[vid |-> int(SubSeq(s, i + 2, j - 1)),
                         text |-> strip(SubSeq(s, g, e - 1))]>>
                      \o findall(s, e)

\* _parse_script(content)
_parse_script(content) == findall(content, 1)

(***************************************************************************)
(* core/model_manager.py: the model cache; process_task.py: the model      *)
(* step of _dev_transcribe_pipeline and ai_to_ffmpeg_handover. A model     *)
(* object is the number of the load_model_fn call that returned it; None   *)
(* is 0 for an object and "None" for a name.                               *)
(***************************************************************************)
None == "None"

NoModel == 0

\* MODEL_CACHE as the module defines it
EmptyCache ==
    [model |-> NoModel, model_name |-> None, device |-> None, compute_type |-> None]

\* KEEP_MODEL_LOADED as the engines hold it: the value bound by
\* from core.model_manager import KEEP_MODEL_LOADED when they are imported;
\* set_keep_model_loaded rebinds the name in core.model_manager only
KEEP_MODEL_LOADED == FALSE

ModelNames == {"large-v3", "tiny"}

Devices == {"cuda", "cpu"}

ComputeTypes == {"float16", "int8"}

\* (model_name, device, compute_type) of a call
Keys == [model_name : ModelNames, device : Devices, compute_type : ComputeTypes]

\* the key of the transcription of a workflow run on a machine without GPU
RunKey == [model_name |-> "large-v3", device |-> "cpu", compute_type |-> "int8"]

NoCall == [kind |-> "none"]

\* a test that looks at the model name only
use_cached_byname(cache, key, keep) ==
    /\ keep
    /\ cache.model # NoModel
    /\ cache.model_name = key.model_name

\* _dev_transcribe_pipeline: use_cached
use_cached(cache, key, keep) ==
    /\ keep
    /\ cache.model # NoModel
    /\ cache.model_name = key.model_name
    /\ cache.device = key.device
    /\ cache.compute_type = key.compute_type

\* _dev_transcribe_pipeline, step 1 and the cleanup after the transcription:
\* the cache, the number of loads and the model used, after a call made
\* with n loads done so far; loaded tells whether load_model_fn returned
_dev_transcribe_pipeline(cache, n, key, keep, loaded) ==
    IF use_cached(cache, key, keep)
    THEN [cache |-> cache, loads |-> n, model |-> cache.model, raised |-> FALSE]
    ELSE IF ~loaded
    THEN [cache |-> cache, loads |-> n + 1, model |-> NoModel, raised |-> TRUE]
    ELSE [cache |-> IF keep
                    THEN [model |-> n + 1, model_name |-> key.model_name,
                          device |-> key.device, compute_type |-> key.compute_type]
                    ELSE cache,
          loads |-> n + 1, model |-> n + 1, raised |-> FALSE]

\* the record of a call in tlast
CallRecord(cache, key, keep, r) ==
    [kind |-> "transcribe", key |-> key, keep |-> keep, before |-> cache,
     model |-> r.model, raised |-> r.raised]

\* core/model_manager.clear_model_cache
clear_model_cache(cache) == IF cache.model # NoModel THEN EmptyCache ELSE cache

\* nothing was loaded and no hand-over was made
ManagerIdle ==
    /\ MODEL_CACHE = EmptyCache
    /\ loads = 0
    /\ calls = 0
    /\ tlast = NoCall
    /\ handover = FALSE

\* the run has transcribed and made the hand-over (sk1 lines 334-357)
ManagerHanded ==
    LET r == _dev_transcribe_pipeline(EmptyCache, 0, RunKey, KEEP_MODEL_LOADED, TRUE)
    IN  /\ MODEL_CACHE = r.cache
        /\ loads = r.loads
        /\ calls = 1
        /\ tlast = CallRecord(EmptyCache, RunKey, KEEP_MODEL_LOADED, r)
        /\ handover = TRUE

\* CONFIG["video_source_dir"] of the runs
ConfigIdle == video_source_dir = "videos"

(***************************************************************************)
(* engines/sk1_cutting.py, engines/sk3_image_flow.py, process_task.py:     *)
(* the workflows, their loops and run_ffmpeg_fast.                         *)
(***************************************************************************)
Modes == {"sk1", "sk3"}

\* core/ffmpeg.py get_best_encoder: the probed profile or the software one
SoftwareEncoder == <<"libx264", "ultrafast">>

Encoders == {<<"h264_nvenc", "p1">>, SoftwareEncoder}

RECURSIVE zfill(_, _)
zfill(str, width) == IF Len(str) >= width THEN str ELSE zfill("0" \o str, width)

IndexOf(seq, x) == CHOOSE i \in 1..Len(seq) : seq[i] = x /\ \A j \in 1..(i - 1) : seq[j] # x

\* list.insert(i0, x) with the 0-based position i0 = IndexOf - 1
InsertBefore(seq, i, x) == SubSeq(seq, 1, i - 1) \o <<x>> \o SubSeq(seq, i, Len(seq))

AudioOut(vid) == "out_aud/" \o zfill(ToString(vid), 3) \o ".mp3"

VideoOut(vid) == "out_vid/" \o zfill(ToString(vid), 3) \o ".mp4"

\* the audio job's argument vector
AudioCmd(vid) ==
    <<"ffmpeg", "-y", "-ss", "<s_time>", "-to", "<e_time>", "-i", "<audio_path>",
      "-vn", "-acodec", "libmp3lame", "-q:a", "2", "-loglevel", "error", AudioOut(vid)>>

\* _find_video_by_vid_any_ext, for a directory that holds <vid>.mp4:
\* os.path.join(video_dir, name)
VideoSrc(vid) == video_source_dir \o "/" \o ToString(vid) \o ".mp4"

\* cmd_copy of _cutting_loop
CopyCmd(vid, enc) ==
    <<"ffmpeg", "-y", "-threads", "0", "-ss", "0", "-i", VideoSrc(vid),
      "-t", "<duration>", "-vf", "scale=trunc(iw/2)*2:trunc(ih/2)*2,fps=30",
      "-map", "0:v:0", "-map", "0:a?", "-c:v", enc[1], "-preset", enc[2],
      "-pix_fmt", "yuv420p", "-c:a", "copy", "-shortest", "-map_metadata", "-1",
      "-loglevel", "error", VideoOut(vid)>>

\* cmd_aac of _cutting_loop: cmd_copy[:] edited in place
AacCmd(vid, enc) ==
    LET c0 == CopyCmd(vid, enc)
        c1 == [c0 EXCEPT ![IndexOf(c0, "-c:a") + 1] = "aac"]
        c2 == InsertBefore(c1, IndexOf(c1, "-shortest"), "192k")
        c3 == InsertBefore(c2, IndexOf(c2, "-shortest"), "-b:a")
    IN  c3

\* the argument vector built by _make_image_clip for a still image
ImageCmd(vid, enc) ==
    <<"ffmpeg", "-y", "-loop", "1", "-i", "<image_path>", "-frames:v", "<frames>",
      "-vf", "<vf>", "-an", "-r", "30", "-c:v", enc[1], "-preset", enc[2],
      "-pix_fmt", "yuv420p", "-map_metadata", "-1", "-movflags", "+faststart",
      "-loglevel", "error", VideoOut(vid)>>

JobCmd(j, vid) ==
    CASE j = "audio" -> AudioCmd(vid)
      [] j = "copy"  -> CopyCmd(vid, encoder)
      [] j = "aac"   -> AacCmd(vid, encoder)
      [] j = "hw"    -> ImageCmd(vid, encoder)
      [] j = "sw"    -> ImageCmd(vid, SoftwareEncoder)

\* run_ffmpeg_fast: cmd_list[0] = _get_ffmpeg_path()
WithFfmpegPath(cmd) ==
    IF cmd # <<>> /\ cmd[1] \in {"ffmpeg", "ffmpeg.exe"}
    THEN [cmd EXCEPT ![1] = "<ffmpeg_path>"]
    ELSE cmd

\* str(e) of what execute_safe raised
ErrText(err) ==
    CASE err.kind = "FFMPEG CRASHED" ->
            "FFMPEG CRASHED:\nCMD: " \o err.cmd \o "\n\nSTDERR:\n" \o err.stderr
            \o "\n\nSTDOUT:\n" \o err.stdout \o "\n\nreturncode="
            \o ToString(err.returncode) \o "\n(Updated to: " \o err.last \o ")"
      [] err.kind = "CMD NOT FOUND" ->
            "CMD NOT FOUND:\nCMD: " \o err.cmd \o "\n(Updated to: " \o err.last \o ")"
      [] OTHER -> err.kind

LowerLetters == <<"a","b","c","d","e","f","g","h","i","j","k","l","m",
                  "n","o","p","q","r","s","t","u","v","w","x","y","z">>

UpperLetters == <<"A","B","C","D","E","F","G","H","I","J","K","L","M",
                  "N","O","P","Q","R","S","T","U","V","W","X","Y","Z">>

UpperChar(c) ==
    IF \E i \in 1..26 : LowerLetters[i] = c
    THEN UpperLetters[CHOOSE i \in 1..26 : LowerLetters[i] = c]
    ELSE c

\* str.upper(), by halves
RECURSIVE Upper(_)
Upper(str) ==
    IF Len(str) = 0 THEN ""
    ELSE IF Len(str) = 1 THEN UpperChar(str)
    ELSE LET h == Len(str) \div 2
         IN  Upper(SubSeq(str, 1, h)) \o Upper(SubSeq(str, h + 1, Len(str)))

\* sub in str
Contains(str, sub) ==
    \E i \in 1..(Len(str) - Len(sub) + 1) : SubSeq(str, i, i + Len(sub) - 1) = sub

\* run_ffmpeg_fast lines 233-236: which exception leaves run_ffmpeg_fast
RunnerException(err) ==
    IF Contains(Upper(ErrText(err)), "STOPPED") THEN "StopRequested" ELSE "RuntimeError"

\* the result of one ffmpeg_runner call as the loop sees it
RunnerResult(out) == IF out.kind = "RETURN" THEN "ok" ELSE RunnerException(out)

Vid(k) == matches[k]

\* for i, p in enumerate(files): if _ffprobe_has_video_stream(p): start_idx = i
StartIdx(fs) ==
    IF \E i \in 1..Len(fs) : fs[i]
    THEN (CHOOSE i \in 1..Len(fs) : fs[i] /\ \A j \in 1..(i - 1) : ~fs[j]) - 1
    ELSE -1

\* a probing that always starts at the first file of the list
PickVisual_first(c, tries) ==
    IF StartIdx(files) < 0 THEN [picked |-> 0, cursor |-> c + Len(files)]
    ELSE [picked |-> StartIdx(files) + 1, cursor |-> c + 1]

RECURSIVE PickVisual(_, _)
\* lines 386-394 of sk3_image_flow.py: the round-robin probe of files
PickVisual(c, tries) ==
    IF tries >= Len(files) THEN [picked |-> 0, cursor |-> c]
    ELSE LET p == (c % Len(files)) + 1
         IN  IF files[p] THEN [picked |-> p, cursor |-> c + 1]
             ELSE PickVisual(c + 1, tries + 1)

PipelineIdle ==
    /\ STOP_FLAG = FALSE
    /\ mode = "sk1"
    /\ wpc = "idle"
    /\ runResult = "none"
    /\ matches = <<>>
    /\ encoder = SoftwareEncoder
    /\ files = <<>>
    /\ lpc = "none"
    /\ job = "none"
    /\ idx = 0
    /\ processed = 0
    /\ cursor = 0
    /\ picked = 0
    /\ logs = <<>>
    /\ loopExc = "none"
    /\ attempts = <<>>
    /\ outFiles = {}
    /\ stopRequested = FALSE
    /\ stopSeg = 0

BoolSeqs(n) == [1..n -> BOOLEAN]

\* the content of the script file of a run that cuts n segments
RECURSIVE MarkedScript(_)
MarkedScript(n) ==
    IF n = 0 THEN ""
    ELSE MarkedScript(n - 1) \o "[V" \o ToString(n) \o "] Ab, "

\* every line of the script is matched; or nothing is matched, the script
\* holding one line or text without any marker
RunScripts(n) == IF n = 0 THEN {"Ab, ", MarkedScript(1)} ELSE {MarkedScript(n)}

\* process_workflow / process_image_flow up to the transcription: the run's
\* inputs are fixed here, STOP_FLAG is reset (sk1 line 251, sk3 line 545)
StartRun ==
    /\ wpc = "idle"
    /\ \E m \in Modes, n \in 0..MaxSegs, enc \in Encoders :
         /\ mode' = m
         /\ matches' = [k \in 1..n |-> k]
         /\ \E sc \in RunScripts(n) : txt' = sc
         /\ encoder' = enc
         /\ IF m = "sk1"
            THEN files' = <<>>
            ELSE \E fs \in BoolSeqs(MaxFiles) : files' = fs
    /\ STOP_FLAG' = FALSE
    /\ wpc' = "setup"
    /\ UNCHANGED <<runResult, lpc, job, idx, processed, cursor, picked, logs,
                   loopExc, attempts, outFiles, stopRequested, stopSeg>>
    /\ UNCHANGED <<tpc, parsed, cleaned, recleaned>>
    /\ UNCHANGED <<kernelVars, alignVars, wrapperVars>>
    /\ UNCHANGED <<managerVars, configVars, loggerVars>>

\* sk3 lines 578-593: the image folder must hold a readable visual;
\* then the transcription runs (its result is the word list): in DEV mode
\* _dev_transcribe_pipeline is called with MODEL_CACHE and the engine's
\* KEEP_MODEL_LOADED (sk1 lines 334-349, sk3 lines 674-689); in EXE mode
\* the model lives in a process of its own that has exited by then
Setup ==
    /\ wpc = "setup"
    /\ IF mode = "sk3" /\ StartIdx(files) < 0
       THEN /\ wpc' = "done"
            /\ runResult' = "error"
            /\ UNCHANGED <<cursor, MODEL_CACHE, loads, calls, tlast>>
       ELSE /\ wpc' = "precut"
            /\ cursor' = IF mode = "sk3" THEN StartIdx(files) ELSE 0
            /\ LET r == _dev_transcribe_pipeline(MODEL_CACHE, loads, RunKey,
                                                 KEEP_MODEL_LOADED, TRUE)
               IN  /\ MODEL_CACHE' = r.cache
                   /\ loads' = r.loads
                   /\ tlast' = CallRecord(MODEL_CACHE, RunKey, KEEP_MODEL_LOADED, r)
            /\ calls' = calls + 1
            /\ UNCHANGED runResult
    /\ UNCHANGED <<STOP_FLAG, mode, matches, encoder, files, lpc, job,
                   idx, processed, picked, logs, loopExc, attempts, outFiles,
                   stopRequested, stopSeg>>
    /\ UNCHANGED <<kernelVars, alignVars, wrapperVars, textVars>>
    /\ UNCHANGED <<handover, configVars, loggerVars>>

\* a hand-over that is not made
ai_to_ffmpeg_handover_skip == handover' = handover

\* process_task.ai_to_ffmpeg_handover: gc.collect(), torch.cuda.empty_cache()
\* and ipc_collect(), time.sleep(2); MODEL_CACHE is not touched
ai_to_ffmpeg_handover == handover' = TRUE

\* sk1 lines 352-417, sk3 lines 692-750: the stop check after transcription,
\* then the hand-over, the script parse (sk3 raises when it gives no item,
\* lines 704-705; sk1 does not, lines 362-371), the match and the call of
\* the loop
PreCut ==
    /\ wpc = "precut"
    /\ IF STOP_FLAG
       THEN /\ wpc' = "done"
            /\ runResult' = "stopped"
            /\ UNCHANGED <<lpc, idx, parsed, handover>>
       ELSE /\ ai_to_ffmpeg_handover
            /\ parsed' = _parse_script(txt)
            /\ IF mode = "sk3" /\ parsed' = <<>>
               THEN /\ wpc' = "done"
                    /\ runResult' = "error"
                    /\ UNCHANGED <<lpc, idx>>
               ELSE /\ wpc' = "loop"
                    /\ lpc' = "head"
                    /\ idx' = 1
                    /\ UNCHANGED runResult
    /\ UNCHANGED <<STOP_FLAG, mode, matches, encoder, files, job,
                   processed, cursor, picked, logs, loopExc, attempts, outFiles,
                   stopRequested, stopSeg>>
    /\ UNCHANGED <<txt, tpc, cleaned, recleaned>>
    /\ UNCHANGED <<kernelVars, alignVars, wrapperVars>>
    /\ UNCHANGED <<MODEL_CACHE, loads, calls, tlast, configVars, loggerVars>>

Log(kind) == logs' = Append(logs, [seg |-> idx, kind |-> kind])

\* the loop calls ffmpeg_runner / _make_image_clip for job j
CallJob(j) ==
    /\ lpc' = "call"
    /\ job' = j

\* an end of the loop body that counts nothing
NextSegment_nocount(kind, counted) ==
    /\ Log(kind)
    /\ processed' = processed
    /\ idx' = idx + 1
    /\ lpc' = "head"
    /\ job' = "none"
    /\ UNCHANGED <<loopExc, cursor, picked>>

\* `continue`, or the end of the loop body: on to the next segment
NextSegment(kind, counted) ==
    /\ Log(kind)
    /\ processed' = IF counted THEN processed + 1 ELSE processed
    /\ idx' = idx + 1
    /\ lpc' = "head"
    /\ job' = "none"
    /\ UNCHANGED <<loopExc, cursor, picked>>

\* an exception nobody in the loop catches
Propagate(exc) ==
    /\ lpc' = "raised"
    /\ loopExc' = exc
    /\ job' = "none"
    /\ UNCHANGED <<logs, processed, idx, cursor, picked>>

\* an audio job whose exception is not caught
OnAudioError_propagate(exc) == Propagate(exc)

\* the handler of the audio job's try: process_task.py lines 623-625,
\* sk3_image_flow.py lines 381-383
OnAudioError(exc) == NextSegment("AUDIO_FAILED", FALSE)

\* after the audio job succeeded: find the video (sk1), pick the visual (sk3)
OnAudioOk ==
    IF mode = "sk1"
    THEN \E video_src \in BOOLEAN :
            IF video_src
            THEN CallJob("copy") /\ UNCHANGED <<logs, processed, idx, loopExc, cursor, picked>>
            ELSE NextSegment("AUDIO_ONLY", TRUE)
    ELSE LET r == PickVisual(cursor, 0)
         IN  IF r.picked = 0
             THEN /\ Log("NO_VISUAL")
                  /\ cursor' = r.cursor
                  /\ idx' = idx + 1
                  /\ lpc' = "head"
                  /\ job' = "none"
                  /\ UNCHANGED <<processed, loopExc, picked>>
             ELSE /\ CallJob("hw")
                  /\ cursor' = r.cursor
                  /\ picked' = r.picked
                  /\ UNCHANGED <<logs, processed, idx, loopExc>>

\* the handler of the first video job's try: process_task.py lines 653-659,
\* sk3_image_flow.py lines 406-411: run the fallback job
OnVideoError(exc) ==
    /\ CallJob(IF mode = "sk1" THEN "aac" ELSE "sw")
    /\ UNCHANGED <<logs, processed, idx, loopExc, cursor, picked>>

\* the fallback job runs inside the except clause: what it raises leaves the loop
OnFallbackError(exc) == Propagate(exc)

OnVideoOk == NextSegment(IF mode = "sk1" THEN "AUDIO_VIDEO" ELSE "AUDIO_IMAGE", TRUE)

\* a loop that goes on to the video whatever the audio job did
AfterJob_blind(j, r) ==
    CASE j = "audio" -> OnAudioOk
      [] j \in {"copy", "hw"} /\ r # "ok" -> OnVideoError(r)
      [] j \in {"aac", "sw"} /\ r # "ok" -> OnFallbackError(r)
      [] OTHER -> OnVideoOk

\* what the loop does with the result r of job j
AfterJob(j, r) ==
    CASE j = "audio" /\ r = "ok" -> OnAudioOk
      [] j = "audio" /\ r # "ok" -> OnAudioError(r)
      [] j \in {"copy", "hw"} /\ r # "ok" -> OnVideoError(r)
      [] j \in {"aac", "sw"} /\ r # "ok" -> OnFallbackError(r)
      [] OTHER -> OnVideoOk

\* stop_check() of the loop: lambda: STOP_FLAG
stop_check == STOP_FLAG

\* process_task.py lines 597-606, sk3_image_flow.py lines 357-366: the head of
\* the loop body, up to the call of the audio job
LoopHead ==
    /\ wpc = "loop"
    /\ lpc = "head"
    /\ IF idx > Len(matches)
       THEN /\ lpc' = "returned"
            /\ UNCHANGED <<logs, job>>
       ELSE IF stop_check
       THEN /\ Log("STOPPED")
            /\ lpc' = "returned"
            /\ UNCHANGED job
       ELSE /\ CallJob("audio")
            /\ UNCHANGED logs
    /\ UNCHANGED <<STOP_FLAG, mode, wpc, runResult, matches, encoder,
                   files, idx, processed, cursor, picked, loopExc, attempts,
                   outFiles, stopRequested, stopSeg>>
    /\ UNCHANGED <<kernelVars, alignVars, wrapperVars, textVars>>
    /\ UNCHANGED <<managerVars, configVars, loggerVars>>

Attempt(res, launched) ==
    attempts' = Append(attempts, [seg |-> idx, job |-> job, res |-> res,
                                  launched |-> launched])

\* run_ffmpeg_fast / _run_ffmpeg lines 212-232: the STOP_FLAG check, then the
\* call of safe_kernel.execute_safe(cmd_list, cwd=app_root)
RunnerBegin ==
    /\ wpc = "loop"
    /\ lpc = "call"
    /\ IF STOP_FLAG
       THEN /\ AfterJob(job, "StopRequested")
            /\ Attempt("refused", FALSE)
            /\ UNCHANGED kernelVars
       ELSE /\ BeginCall(WithFfmpegPath(JobCmd(job, Vid(idx))), "app_root",
                         NoTimeout, TRUE, TRUE)
            /\ lpc' = "wait"
            /\ UNCHANGED <<job, idx, processed, cursor, picked, logs, loopExc, attempts>>
    /\ UNCHANGED <<STOP_FLAG, mode, wpc, runResult, matches, encoder,
                   files, outFiles, stopRequested, stopSeg>>
    /\ UNCHANGED <<alignVars, wrapperVars, textVars>>
    /\ UNCHANGED <<managerVars, configVars, loggerVars>>

\* run_ffmpeg_fast lines 233-236 and the loop's handling of the result
RunnerEnd ==
    /\ wpc = "loop"
    /\ lpc = "wait"
    /\ kpc = "done"
    /\ EndCall
    /\ AfterJob(job, RunnerResult(koutcome))
    /\ Attempt(IF koutcome.kind = "RETURN" THEN "ok" ELSE koutcome.kind, proc # "none")
    /\ outFiles' = IF koutcome.kind = "RETURN"
                   THEN outFiles \cup {kargs.cmd[Len(kargs.cmd)]}
                   ELSE outFiles
    /\ UNCHANGED <<STOP_FLAG, mode, wpc, runResult, matches, encoder,
                   files, stopRequested, stopSeg>>
    /\ UNCHANGED <<alignVars, wrapperVars, textVars>>
    /\ UNCHANGED <<managerVars, configVars, loggerVars>>

\* sk1 lines 419-462, sk3 lines 752-754: the loop returned
AfterLoop ==
    /\ wpc = "loop"
    /\ lpc = "returned"
    /\ wpc' = "done"
    /\ runResult' = IF ~STOP_FLAG THEN "completed" ELSE "returned"
    /\ UNCHANGED <<STOP_FLAG, mode, matches, encoder, files, lpc, job,
                   idx, processed, cursor, picked, logs, loopExc, attempts,
                   outFiles, stopRequested, stopSeg>>
    /\ UNCHANGED <<kernelVars, alignVars, wrapperVars, textVars>>
    /\ UNCHANGED <<managerVars, configVars, loggerVars>>

\* sk1 lines 464-486, sk3 lines 756-778: the workflow's except clauses
OnLoopException ==
    /\ wpc = "loop"
    /\ lpc = "raised"
    /\ wpc' = "done"
    /\ IF loopExc = "StopRequested"
       THEN STOP_FLAG' = TRUE /\ runResult' = "stopped"
       ELSE UNCHANGED STOP_FLAG /\ runResult' = "error"
    /\ UNCHANGED <<mode, matches, encoder, files, lpc, job, idx,
                   processed, cursor, picked, logs, loopExc, attempts, outFiles,
                   stopRequested, stopSeg>>
    /\ UNCHANGED <<kernelVars, alignVars, wrapperVars, textVars>>
    /\ UNCHANGED <<managerVars, configVars, loggerVars>>

(***************************************************************************)
(* The cancellation request: one of the set_stop_signal mutators is called *)
(* with True while a run is active.                                        *)
(***************************************************************************)
RunActive == wpc \in {"setup", "precut", "loop"}

SegmentInProgress == wpc = "loop" /\ lpc \in {"call", "wait"}

NoteStop ==
    /\ stopRequested' = TRUE
    /\ stopSeg' = IF stopSeg = 0 /\ SegmentInProgress THEN idx ELSE stopSeg

\* sk1_cutting.set_stop_signal / sk3_image_flow.set_stop_signal
EngineSetStop ==
    /\ RunActive
    /\ ~STOP_FLAG
    /\ STOP_FLAG' = TRUE
    /\ NoteStop
    /\ UNCHANGED <<mode, wpc, runResult, matches, encoder, files, lpc,
                   job, idx, processed, cursor, picked, logs, loopExc, attempts,
                   outFiles>>
    /\ UNCHANGED <<kernelVars, alignVars, wrapperVars, textVars>>
    /\ UNCHANGED <<managerVars, configVars, loggerVars>>

\* safe_kernel.set_stop_signal, called directly
SafeKernelSetStop ==
    /\ RunActive
    /\ ~_STOP_FLAG
    /\ _STOP_FLAG' = TRUE
    /\ NoteStop
    /\ UNCHANGED <<STOP_FLAG, mode, wpc, runResult, matches, encoder,
                   files, lpc, job, idx, processed, cursor, picked, logs, loopExc,
                   attempts, outFiles>>
    /\ UNCHANGED <<kpc, kargs, proc, procRc, pipe, written, stderr_acc, elapsed,
                   termSent, killed, koutcome, lastFailed>>
    /\ UNCHANGED <<alignVars, wrapperVars, textVars>>
    /\ UNCHANGED <<managerVars, configVars, loggerVars>>

\* core/model_manager.set_stop_signal: engine_merge and engine_fx are not
\* modules of this repository (the imports fail and are swallowed); the
\* call reaches safe_kernel.set_stop_signal only
ManagerSetStop ==
    /\ RunActive
    /\ ~_STOP_FLAG
    /\ _STOP_FLAG' = TRUE
    /\ NoteStop
    /\ UNCHANGED <<STOP_FLAG, mode, wpc, runResult, matches, encoder,
                   files, lpc, job, idx, processed, cursor, picked, logs, loopExc,
                   attempts, outFiles>>
    /\ UNCHANGED <<kpc, kargs, proc, procRc, pipe, written, stderr_acc, elapsed,
                   termSent, killed, koutcome, lastFailed>>
    /\ UNCHANGED <<alignVars, wrapperVars, textVars>>
    /\ UNCHANGED <<managerVars, configVars, loggerVars>>

(***************************************************************************)
(* process_task.process_task with type "sk1": the cutting loop of the      *)
(* worker job, lines 447-499, run on the segments of matches against the   *)
(* outcomes that the jobs of the run had: the result of job j of segment k *)
(* is the one recorded in attempts, and the source video of a segment is   *)
(* found where the run found it.                                           *)
(***************************************************************************)
\* the result the run had from job j of segment k
JobResult(k, j) ==
    IF \E i \in 1..Len(attempts) : attempts[i].seg = k /\ attempts[i].job = j
    THEN LET i == CHOOSE i \in 1..Len(attempts) :
                      attempts[i].seg = k /\ attempts[i].job = j
         IN  attempts[i].res
    ELSE "unknown"

\* _find_video_by_vid_any_ext gave a file for segment k
VideoFound(k) == JobResult(k, "copy") # "unknown"

\* lines 450-497: the for loop from segment k on, jobs being the calls of
\* _run made so far. _run raises on a non-zero exit (lines 98-103); only
\* the call of cmd_copy stands in a try, and what leaves the loop is turned
\* into {"ok": False} by the handler of lines 561-562
RECURSIVE WorkerLoop(_, _)
WorkerLoop(k, jobs) ==
    IF k > Len(matches) THEN [jobs |-> jobs, ok |-> TRUE]
    ELSE LET j1 == Append(jobs, [seg |-> k, job |-> "audio"])
             j2 == Append(j1, [seg |-> k, job |-> "copy"])
             j3 == Append(j2, [seg |-> k, job |-> "aac"])
         IN  IF JobResult(k, "audio") # "ok" THEN [jobs |-> j1, ok |-> FALSE]
             ELSE IF ~VideoFound(k) THEN WorkerLoop(k + 1, j1)
             ELSE IF JobResult(k, "copy") = "ok" THEN WorkerLoop(k + 1, j2)
             ELSE IF JobResult(k, "aac") = "ok" THEN WorkerLoop(k + 1, j3)
             ELSE [jobs |-> j3, ok |-> FALSE]

(***************************************************************************)
(* api_wrapper.py: main, the task functions run_sk1, run_sk3 and run_sub,  *)
(* and the events they print on stdout. events holds "error" for           *)
(* emit("error", ...), "complete" for emit_progress(100, "... Complete!")  *)
(* and "result" for the line of type "result" with status "ok".            *)
(***************************************************************************)
\* the process is still running
NotExited == -1

\* no task has been dispatched and nothing was printed on stdout
WrapperIdle ==
    /\ events = <<>>
    /\ exitCode = NotExited

\* main line 306 with --task sub: run_sub is entered
StartSub ==
    /\ wpc = "idle"
    /\ mode' = "sub"
    /\ wpc' = "sub"
    /\ UNCHANGED <<STOP_FLAG, runResult, matches, encoder, files, lpc, job, idx,
                   processed, cursor, picked, logs, loopExc, attempts, outFiles,
                   stopRequested, stopSeg>>
    /\ UNCHANGED <<kernelVars, alignVars, wrapperVars, textVars>>
    /\ UNCHANGED <<managerVars, configVars, loggerVars>>

\* what a run of run_sub meets: the import of the engine fails (lines
\* 131-135, outside the try), the video is not a file (lines 147-149), the
\* transcription raises inside the try (lines 172-237), or all goes well
SubOutcomes == {"import_error", "no_video", "raised", "ok"}

\* run_sub lines 125-237
SubTask ==
    /\ wpc = "sub"
    /\ \E outcome \in SubOutcomes :
         /\ events' = CASE outcome = "import_error" -> events
                         [] outcome = "no_video" -> Append(events, "error")
                         [] outcome = "raised" -> Append(events, "error")
                         [] outcome = "ok" -> events \o <<"result", "complete">>
         /\ runResult' = CASE outcome = "import_error" -> "error"
                            [] outcome = "no_video" -> "returned"
                            [] outcome = "raised" -> "error"
                            [] outcome = "ok" -> "completed"
    /\ wpc' = "done"
    /\ UNCHANGED <<STOP_FLAG, mode, matches, encoder, files, lpc, job, idx,
                   processed, cursor, picked, logs, loopExc, attempts, outFiles,
                   stopRequested, stopSeg>>
    /\ UNCHANGED exitCode
    /\ UNCHANGED <<kernelVars, alignVars, textVars>>
    /\ UNCHANGED <<managerVars, configVars, loggerVars>>

\* main lines 305-316 and the end of run_sk1 / run_sk3 (lines 118-120,
\* 281-283): an exception out of the task function is reported and the
\* process exits with 1; a task function that returns, however its workflow
\* ended, reports completion and the process exits with 0
WrapperExit ==
    /\ wpc = "done"
    /\ exitCode = NotExited
    /\ IF runResult = "error"
       THEN /\ events' = Append(events, "error")
            /\ exitCode' = 1
       ELSE /\ events' = IF mode \in Modes THEN events \o <<"complete", "result">>
                         ELSE events
            /\ exitCode' = 0
    /\ UNCHANGED <<pipelineVars, kernelVars, alignVars, textVars>>
    /\ UNCHANGED <<managerVars, configVars, loggerVars>>

(***************************************************************************)
(* async_logger.py: emit_async puts a payload on an unbounded queue, the   *)
(* daemon thread _log_worker takes the payloads and prints them, shutdown  *)
(* sets _shutdown, puts None and joins the thread for three seconds.       *)
(* A payload is the number of the emit_async call that made it.            *)
(***************************************************************************)
\* the sentinel None on the queue
Sentinel == 0

NotShut == -1

\* the module has just been imported: the thread waits in _log_queue.get
LoggerIdle ==
    /\ _log_queue = <<>>
    /\ _shutdown = FALSE
    /\ wkpc = "get"
    /\ payload = Sentinel
    /\ sys_stdout = <<>>
    /\ dropped = {}
    /\ emitted = 0
    /\ sdpc = "none"
    /\ shutAt = NotShut

\* emit_async lines 62-65: _log_queue.put(payload) on a queue without
\* maxsize
emit_async ==
    /\ emitted < MaxMsgs
    /\ emitted' = emitted + 1
    /\ _log_queue' = Append(_log_queue, emitted + 1)
    /\ UNCHANGED <<_shutdown, wkpc, payload, sys_stdout, dropped, sdpc, shutAt>>
    /\ UNCHANGED <<kernelVars, pipelineVars, alignVars, wrapperVars, textVars>>
    /\ UNCHANGED <<managerVars, configVars>>

\* _log_worker lines 30-38: _log_queue.get returns a payload; None ends
\* the thread
WorkerGet ==
    /\ wkpc = "get"
    /\ _log_queue # <<>>
    /\ payload' = Head(_log_queue)
    /\ _log_queue' = Tail(_log_queue)
    /\ wkpc' = IF Head(_log_queue) = Sentinel THEN "done" ELSE "write"
    /\ UNCHANGED <<_shutdown, sys_stdout, dropped, emitted, sdpc, shutAt>>
    /\ UNCHANGED <<kernelVars, pipelineVars, alignVars, wrapperVars, textVars>>
    /\ UNCHANGED <<managerVars, configVars>>

\* _log_worker lines 31-32: the queue stayed empty for the timeout and
\* get raises queue.Empty
WorkerTimeout ==
    /\ wkpc = "get"
    /\ _log_queue = <<>>
    /\ wkpc' = "timedout"
    /\ UNCHANGED <<_log_queue, _shutdown, payload, sys_stdout, dropped, emitted,
                   sdpc, shutAt>>
    /\ UNCHANGED <<kernelVars, pipelineVars, alignVars, wrapperVars, textVars>>
    /\ UNCHANGED <<managerVars, configVars>>

\* _log_worker lines 32-35: the handler of queue.Empty reads _shutdown
WorkerEmpty ==
    /\ wkpc = "timedout"
    /\ wkpc' = IF _shutdown THEN "done" ELSE "get"
    /\ UNCHANGED <<_log_queue, _shutdown, payload, sys_stdout, dropped, emitted,
                   sdpc, shutAt>>
    /\ UNCHANGED <<kernelVars, pipelineVars, alignVars, wrapperVars, textVars>>
    /\ UNCHANGED <<managerVars, configVars>>

\* a consumer that ends when a write raises
WorkerWrite_stop ==
    /\ wkpc = "write"
    /\ \E ok \in BOOLEAN :
         IF ok
         THEN /\ sys_stdout' = Append(sys_stdout, payload)
              /\ wkpc' = "get"
              /\ UNCHANGED dropped
         ELSE /\ dropped' = dropped \cup {payload}
              /\ wkpc' = "done"
              /\ UNCHANGED sys_stdout
    /\ UNCHANGED <<_log_queue, _shutdown, payload, emitted, sdpc, shutAt>>
    /\ UNCHANGED <<kernelVars, pipelineVars, alignVars, wrapperVars, textVars>>
    /\ UNCHANGED <<managerVars, configVars>>

\* _log_worker lines 40-54: the payload is printed, or the write raises
\* and the handler reports it on stderr; then the loop goes on
WorkerWrite ==
    /\ wkpc = "write"
    /\ \E ok \in BOOLEAN :
         IF ok
         THEN /\ sys_stdout' = Append(sys_stdout, payload)
              /\ UNCHANGED dropped
         ELSE /\ dropped' = dropped \cup {payload}
              /\ UNCHANGED sys_stdout
    /\ wkpc' = "get"
    /\ UNCHANGED <<_log_queue, _shutdown, payload, emitted, sdpc, shutAt>>
    /\ UNCHANGED <<kernelVars, pipelineVars, alignVars, wrapperVars, textVars>>
    /\ UNCHANGED <<managerVars, configVars>>

\* shutdown line 71: _shutdown = True
ShutdownFlag ==
    /\ sdpc = "none"
    /\ _shutdown' = TRUE
    /\ shutAt' = emitted
    /\ sdpc' = "put"
    /\ UNCHANGED <<_log_queue, wkpc, payload, sys_stdout, dropped, emitted>>
    /\ UNCHANGED <<kernelVars, pipelineVars, alignVars, wrapperVars, textVars>>
    /\ UNCHANGED <<managerVars, configVars>>

\* shutdown line 72: _log_queue.put(None)
ShutdownPut ==
    /\ sdpc = "put"
    /\ _log_queue' = Append(_log_queue, Sentinel)
    /\ sdpc' = "join"
    /\ UNCHANGED <<_shutdown, wkpc, payload, sys_stdout, dropped, emitted, shutAt>>
    /\ UNCHANGED <<kernelVars, pipelineVars, alignVars, wrapperVars, textVars>>
    /\ UNCHANGED <<managerVars, configVars>>

\* shutdown line 73: _worker_thread.join(timeout=3.0) returns, the thread
\* having ended or the three seconds being over
ShutdownJoin ==
    /\ sdpc = "join"
    /\ sdpc' = "returned"
    /\ UNCHANGED <<_log_queue, _shutdown, wkpc, payload, sys_stdout, dropped,
                   emitted, shutAt>>
    /\ UNCHANGED <<kernelVars, pipelineVars, alignVars, wrapperVars, textVars>>
    /\ UNCHANGED <<managerVars, configVars>>

\* the steps of the thread _log_worker
WorkerStep ==
    \/ WorkerGet
    \/ WorkerTimeout
    \/ WorkerEmpty
    \/ WorkerWrite

(***************************************************************************)
(* _seq.py: the sequence aligner.                                          *)
(***************************************************************************)
\* the characters removed by the regular expression of _clean_text
\* (its ASCII members but the backquote)
Punctuation == {".", ",", "/", "#", "!", "$", "%", "^", "&", "*", ";", ":",
                "{", "}", "=", "-", "_", "~", "(", ")"}

\* str.swapcase() in the place of str.lower()
LowerChar_swap(c) ==
    IF \E i \in 1..26 : UpperLetters[i] = c
    THEN LowerLetters[CHOOSE i \in 1..26 : UpperLetters[i] = c]
    ELSE IF \E i \in 1..26 : LowerLetters[i] = c
    THEN UpperLetters[CHOOSE i \in 1..26 : LowerLetters[i] = c]
    ELSE c

\* str.lower() on one character
LowerChar(c) ==
    IF \E i \in 1..26 : UpperLetters[i] = c
    THEN LowerLetters[CHOOSE i \in 1..26 : UpperLetters[i] = c]
    ELSE c

\* _clean_text: text.lower(), then re.sub(punctuation, "", text); by halves
RECURSIVE _clean_text(_)
_clean_text(text) ==
    IF Len(text) = 0 THEN ""
    ELSE IF Len(text) = 1
         THEN IF text \in Punctuation THEN "" ELSE LowerChar(text)
    ELSE LET h == Len(text) \div 2
         IN  _clean_text(SubSeq(text, 1, h)) \o _clean_text(SubSeq(text, h + 1, Len(text)))

\* the length of the longest common prefix of a[i..] and b[j..]
RECURSIVE CommonPrefix(_, _, _, _)
CommonPrefix(a, i, b, j) ==
    IF i > Len(a) \/ j > Len(b) \/ SubSeq(a, i, i) # SubSeq(b, j, j) THEN 0
    ELSE 1 + CommonPrefix(a, i + 1, b, j + 1)

\* SequenceMatcher.find_longest_match without junk: the longest matching
\* block, the earliest in a, and of those the earliest in b
find_longest_match(a, b) ==
    LET size(i, j) == CommonPrefix(a, i, b, j)
        pairs == (1..Len(a)) \X (1..Len(b))
        best  == CHOOSE p \in pairs :
                    \A q \in pairs :
                        \/ size(p[1], p[2]) > size(q[1], q[2])
                        \/ /\ size(p[1], p[2]) = size(q[1], q[2])
                           /\ \/ p[1] < q[1]
                              \/ p[1] = q[1] /\ p[2] <= q[2]
    IN  [i |-> best[1], j |-> best[2], size |-> size(best[1], best[2])]

\* the sum of the sizes of SequenceMatcher.get_matching_blocks()
RECURSIVE MatchingSize(_, _)
MatchingSize(a, b) ==
    IF Len(a) = 0 \/ Len(b) = 0 THEN 0
    ELSE LET m == find_longest_match(a, b)
         IN  IF m.size = 0 THEN 0
             ELSE m.size
                  + MatchingSize(SubSeq(a, 1, m.i - 1), SubSeq(b, 1, m.j - 1))
                  + MatchingSize(SubSeq(a, m.i + m.size, Len(a)),
                                 SubSeq(b, m.j + m.size, Len(b)))

\* a matcher content with a ratio above 0.5
RatioAbove85_half(a, b) ==
    LET M == MatchingSize(a, b)
        T == Len(a) + Len(b)
    IN  IF T = 0 THEN TRUE ELSE 4 * M > T

\* difflib.SequenceMatcher(None, a, b).ratio() > 0.85, ratio = 2.0 * M / T
RatioAbove85(a, b) ==
    LET M == MatchingSize(a, b)
        T == Len(a) + Len(b)
    IN  IF T = 0 THEN TRUE ELSE 40 * M > 17 * T

MAX_COLLECTED_LEN == 5000

\* a string of n characters c, by halves
RECURSIVE Repeat(_, _)
Repeat(c, n) ==
    IF n = 0 THEN ""
    ELSE IF n = 1 THEN c
    ELSE Repeat(c, n \div 2) \o Repeat(c, n - (n \div 2))

\* a word entry without the key, and one whose value float() rejects (None)
Missing == -1

Invalid == -2

\* the entries of all_words the model draws from; times in tenths of a second
WordKinds == {"ab", "Cd,", "nodict", "long", "huge"}

WordText(kind) ==
    CASE kind = "long" -> Repeat("z", 21)
      [] kind = "huge" -> Repeat(".", MAX_COLLECTED_LEN + 1)
      [] OTHER -> kind

\* the i-th entry of a time-ordered word list (entries 2 and 3 start
\* together); word is str(w.get("word", ""))
WordAt(kind, i) ==
    [isdict |-> kind # "nodict", word |-> WordText(kind),
     start |-> 10 * (i \div 2), end |-> 10 * (i \div 2) + 7]

WordLists == UNION {[1..n -> WordKinds] : n \in 0..MaxWords}

ScriptTexts == {"ab cd", "...", "z"}

Scripts == UNION {[1..n -> ScriptTexts] : n \in 0..MaxItems}

\* no text function has been applied
TextIdle ==
    /\ txt = ""
    /\ tpc = "idle"
    /\ parsed = <<>>
    /\ cleaned = ""
    /\ recleaned = ""

AlignIdle ==
    /\ all_words = <<>>
    /\ script_items = <<>>
    /\ apc = "idle"
    /\ item_idx = 1
    /\ word_ptr = 0
    /\ target = ""
    /\ collected = ""
    /\ current_words = <<>>
    /\ aligned = <<>>
    /\ used = <<>>
    /\ aerr = "none"
    /\ iters = 0
    /\ ratio_arg = <<>>

\* a script of two lines and the four words spoken for it, as the
\* transcription gives them (times in tenths of a second)
ExampleScript == "[V1] hello world [V2] goodbye now"

ExampleWords ==
    <<[isdict |-> TRUE, word |-> "hello", start |-> 0, end |-> 5],
      [isdict |-> TRUE, word |-> "world", start |-> 5, end |-> 10],
      [isdict |-> TRUE, word |-> "goodbye", start |-> 12, end |-> 17],
      [isdict |-> TRUE, word |-> "now", start |-> 17, end |-> 20]>>

\* the words of one transcribed segment in which the alignment left a time
\* out (no key), or gave None for it, or whose first word is punctuation only
RawWordLists ==
    {<<[isdict |-> TRUE, word |-> "ab", start |-> 0, end |-> 7],
       [isdict |-> TRUE, word |-> "Cd,", start |-> 10, end |-> Missing]>>,
     <<[isdict |-> TRUE, word |-> "ab", start |-> 0, end |-> 7],
       [isdict |-> TRUE, word |-> "Cd,", start |-> 10, end |-> Invalid]>>,
     <<[isdict |-> TRUE, word |-> "ab", start |-> Missing, end |-> 7],
       [isdict |-> TRUE, word |-> "Cd,", start |-> 10, end |-> 17]>>,
     <<[isdict |-> TRUE, word |-> "--", start |-> 0, end |-> 7],
       [isdict |-> TRUE, word |-> "ab", start |-> 10, end |-> 17]>>}

\* process_task.py line 288: [w for w in seg.get("words", []) if "start" in w]
_extract_words_with_fallback(words) ==
    SelectSeq(words, LAMBDA w : w.start # Missing)

\* lines 59-61: _match_words_to_script(all_words, script_items) is entered
AlignInit ==
    /\ \/ /\ \E ws \in WordLists : all_words = [i \in 1..Len(ws) |-> WordAt(ws[i], i)]
          /\ \E sc \in Scripts :
                script_items = [i \in 1..Len(sc) |-> [vid |-> i, text |-> sc[i]]]
       \/ /\ all_words = ExampleWords
          /\ script_items = _parse_script(ExampleScript)
       \/ /\ \E raw \in RawWordLists :
                \/ all_words = _extract_words_with_fallback(raw)
                \/ all_words = raw
          /\ script_items = <<[vid |-> 1, text |-> "ab cd"]>>
    /\ apc = "item"
    /\ item_idx = 1
    /\ word_ptr = 0
    /\ target = ""
    /\ collected = ""
    /\ current_words = <<>>
    /\ aligned = <<>>
    /\ used = <<>>
    /\ aerr = "none"
    /\ iters = 0
    /\ ratio_arg = <<>>

\* w.get(key, default)
Get(v, default) == IF v = Missing THEN default ELSE v

\* a loop head that starts every item at the first word again
ItemStart_rewind ==
    /\ apc = "item"
    /\ item_idx <= Len(script_items)
    /\ target' = _clean_text(script_items[item_idx].text)
    /\ word_ptr' = 0
    /\ IF target' = ""
       THEN /\ item_idx' = item_idx + 1
            /\ UNCHANGED <<apc, collected, current_words>>
       ELSE /\ apc' = "inner"
            /\ collected' = ""
            /\ current_words' = <<>>
            /\ UNCHANGED item_idx
    /\ UNCHANGED <<all_words, script_items, aligned, used, aerr, iters,
                   ratio_arg>>
    /\ UNCHANGED <<kernelVars, pipelineVars, wrapperVars, textVars>>
    /\ UNCHANGED <<managerVars, configVars, loggerVars>>

\* lines 69-77: the head of the for loop over script_items
ItemStart ==
    /\ apc = "item"
    /\ item_idx <= Len(script_items)
    /\ target' = _clean_text(script_items[item_idx].text)
    /\ IF target' = ""
       THEN /\ item_idx' = item_idx + 1
            /\ UNCHANGED <<apc, collected, current_words>>
       ELSE /\ apc' = "inner"
            /\ collected' = ""
            /\ current_words' = <<>>
            /\ UNCHANGED item_idx
    /\ UNCHANGED <<all_words, script_items, word_ptr, aligned, used, aerr, iters,
                   ratio_arg>>
    /\ UNCHANGED <<kernelVars, pipelineVars, wrapperVars, textVars>>
    /\ UNCHANGED <<managerVars, configVars, loggerVars>>

\* a cursor that stays where it is
Advance_stay(p) == p

\* line 84: word_ptr += 1
Advance(p) == p + 1

\* a loop without the safety cap
OverCap_never(c) == FALSE

\* lines 88-89: if len(collected) > MAX_COLLECTED_LEN: break
OverCap(c) == Len(c) > MAX_COLLECTED_LEN

\* lines 79-98: one evaluation of the while condition and, when it holds,
\* one iteration of the accumulation loop
InnerStep ==
    /\ apc = "inner"
    /\ IF word_ptr < Len(all_words)
       THEN LET w  == all_words[word_ptr + 1]
                c  == IF w.isdict THEN collected \o " " \o w.word ELSE collected
                cw == IF w.isdict THEN Append(current_words, word_ptr + 1)
                      ELSE current_words
            IN  /\ collected' = c
                /\ current_words' = cw
                /\ word_ptr' = Advance(word_ptr)
                /\ iters' = iters + 1
                /\ ratio_arg' = IF OverCap(c) \/ 2 * Len(c) < Len(target) THEN <<>>
                                ELSE <<_clean_text(c)>>
                /\ apc' = IF OverCap(c) THEN "emit"
                          ELSE IF 2 * Len(c) < Len(target) THEN "inner"
                          ELSE IF \/ RatioAbove85(_clean_text(c), target)
                                  \/ Len(_clean_text(c)) > Len(target) + 20
                               THEN "emit"
                               ELSE "inner"
       ELSE /\ apc' = "emit"
            /\ UNCHANGED <<collected, current_words, word_ptr, iters, ratio_arg>>
    /\ UNCHANGED <<all_words, script_items, item_idx, target, aligned, used, aerr>>
    /\ UNCHANGED <<kernelVars, pipelineVars, wrapperVars, textVars>>
    /\ UNCHANGED <<managerVars, configVars, loggerVars>>

\* an end of item that puts the new segment before the earlier ones
ItemEnd_prepend ==
    /\ apc = "emit"
    /\ IF current_words = <<>>
       THEN /\ apc' = "item"
            /\ item_idx' = item_idx + 1
            /\ UNCHANGED <<aligned, used, aerr>>
       ELSE LET first_word == all_words[current_words[1]]
                last_word  == all_words[current_words[Len(current_words)]]
                s_raw  == Get(first_word.start, 0)
                s_time == s_raw
                e_raw  == Get(last_word.end, s_time + 1)
            IN  IF s_raw = Invalid \/ e_raw = Invalid
                THEN /\ apc' = "failed"
                     /\ aerr' = "TypeError"
                     /\ UNCHANGED <<item_idx, aligned, used>>
                ELSE /\ aligned' = <<[vid |-> script_items[item_idx].vid,
                                     s_time |-> s_time, e_time |-> e_raw,
                                     text |-> script_items[item_idx].text]>>
                                  \o aligned
                     /\ used' = Append(used, current_words)
                     /\ apc' = "item"
                     /\ item_idx' = item_idx + 1
                     /\ UNCHANGED aerr
    /\ UNCHANGED <<all_words, script_items, word_ptr, target, collected, current_words,
                   iters, ratio_arg>>
    /\ UNCHANGED <<kernelVars, pipelineVars, wrapperVars, textVars>>
    /\ UNCHANGED <<managerVars, configVars, loggerVars>>

\* lines 100-119: after the while loop: skip the item or emit its segment
ItemEnd ==
    /\ apc = "emit"
    /\ IF current_words = <<>>
       THEN /\ apc' = "item"
            /\ item_idx' = item_idx + 1
            /\ UNCHANGED <<aligned, used, aerr>>
       ELSE LET first_word == all_words[current_words[1]]
                last_word  == all_words[current_words[Len(current_words)]]
                s_raw  == Get(first_word.start, 0)
                s_time == s_raw
                e_raw  == Get(last_word.end, s_time + 1)
            IN  IF s_raw = Invalid \/ e_raw = Invalid
                THEN /\ apc' = "failed"
                     /\ aerr' = "TypeError"
                     /\ UNCHANGED <<item_idx, aligned, used>>
                ELSE /\ aligned' = Append(aligned,
                                          [vid |-> script_items[item_idx].vid,
                                           s_time |-> s_time, e_time |-> e_raw,
                                           text |-> script_items[item_idx].text])
                     /\ used' = Append(used, current_words)
                     /\ apc' = "item"
                     /\ item_idx' = item_idx + 1
                     /\ UNCHANGED aerr
    /\ UNCHANGED <<all_words, script_items, word_ptr, target, collected, current_words,
                   iters, ratio_arg>>
    /\ UNCHANGED <<kernelVars, pipelineVars, wrapperVars, textVars>>
    /\ UNCHANGED <<managerVars, configVars, loggerVars>>

\* line 121: return matches
AlignReturn ==
    /\ apc = "item"
    /\ item_idx > Len(script_items)
    /\ apc' = "done"
    /\ UNCHANGED <<all_words, script_items, item_idx, word_ptr, target, collected,
                   current_words, aligned, used, aerr, iters,
                   ratio_arg>>
    /\ UNCHANGED <<kernelVars, pipelineVars, wrapperVars, textVars>>
    /\ UNCHANGED <<managerVars, configVars, loggerVars>>

AlignNext ==
    \/ ItemStart
    \/ InnerStep
    \/ ItemEnd
    \/ AlignReturn

AlignSpecInit == KernelInit /\ PipelineIdle /\ AlignInit /\ WrapperIdle /\ ManagerIdle /\ ConfigIdle /\ LoggerIdle /\ TextIdle

AlignSpec == AlignSpecInit /\ [][AlignNext]_vars

(***************************************************************************)
(* TextSpec: _parse_script and _clean_text applied to a text.              *)
(***************************************************************************)
\* the pieces the texts of the model are made of
Tokens == {"[V1]", "[v02]", "[", " ", "Ab,", "\n"}

RECURSIVE Concat(_)
Concat(ts) == IF Len(ts) = 0 THEN "" ELSE ts[1] \o Concat(Tail(ts))

Texts == {Concat(ts) : ts \in UNION {[1..n -> Tokens] : n \in 0..MaxTokens}}

TextInit ==
    /\ txt \in Texts
    /\ tpc = "start"
    /\ parsed = <<>>
    /\ cleaned = ""
    /\ recleaned = ""

\* script_items = _parse_script(txt)
ParseText ==
    /\ tpc = "start"
    /\ parsed' = _parse_script(txt)
    /\ tpc' = "parsed"
    /\ UNCHANGED <<txt, cleaned, recleaned>>
    /\ UNCHANGED <<kernelVars, pipelineVars, alignVars, wrapperVars>>
    /\ UNCHANGED <<managerVars, configVars, loggerVars>>

\* _clean_text(txt)
CleanText ==
    /\ tpc = "parsed"
    /\ cleaned' = _clean_text(txt)
    /\ tpc' = "cleaned"
    /\ UNCHANGED <<txt, parsed, recleaned>>
    /\ UNCHANGED <<kernelVars, pipelineVars, alignVars, wrapperVars>>
    /\ UNCHANGED <<managerVars, configVars, loggerVars>>

\* _clean_text applied to its own result
CleanAgain ==
    /\ tpc = "cleaned"
    /\ recleaned' = _clean_text(cleaned)
    /\ tpc' = "done"
    /\ UNCHANGED <<txt, parsed, cleaned>>
    /\ UNCHANGED <<kernelVars, pipelineVars, alignVars, wrapperVars>>
    /\ UNCHANGED <<managerVars, configVars, loggerVars>>

TextNext ==
    \/ ParseText
    \/ CleanText
    \/ CleanAgain

TextSpecInit == KernelInit /\ PipelineIdle /\ AlignIdle /\ WrapperIdle /\ ManagerIdle /\ ConfigIdle /\ LoggerIdle /\ TextInit

TextSpec == TextSpecInit /\ [][TextNext]_vars

Init == KernelInit /\ PipelineIdle /\ AlignIdle /\ WrapperIdle /\ ManagerIdle /\ ConfigIdle /\ LoggerIdle /\ TextIdle

Next ==
    \/ StartRun
    \/ Setup
    \/ PreCut
    \/ LoopHead
    \/ RunnerBegin
    \/ RunnerEnd
    \/ AfterLoop
    \/ OnLoopException
    \/ KEntry
    \/ KSpawn
    \/ KLoopTop
    \/ KRead
    \/ KFinal
    \/ ProcWrite
    \/ ProcClose
    \/ ProcExit
    \/ EngineSetStop
    \/ SafeKernelSetStop
    \/ ManagerSetStop
    \/ StartSub
    \/ SubTask
    \/ WrapperExit

Spec == Init /\ [][Next]_vars

(***************************************************************************)
(* FlowSpec: process_workflow from the parsed script on: the aligner runs  *)
(* on the words of the transcription and _cutting_loop consumes what it    *)
(* returns. No cancellation is requested.                                  *)
(***************************************************************************)
\* the script files of these runs: ids in and out of numeric order, and an
\* item that normalizes to nothing
FlowScripts == {ExampleScript, "[V2] ab cd [V1] z", "[V1] ... [V3] ab [V7] z"}

\* the transcriptions of these runs
FlowWords ==
    {ExampleWords,
     [i \in 1..3 |-> WordAt(<<"ab", "Cd,", "long">>[i], i)]}

\* sk1 lines 362-374: the script is parsed and the aligner is entered
FlowInit ==
    /\ KernelInit
    /\ WrapperIdle
    /\ ManagerHanded
    /\ ConfigIdle
    /\ LoggerIdle
    /\ TextIdle
    /\ STOP_FLAG = FALSE
    /\ mode = "sk1"
    /\ wpc = "match"
    /\ runResult = "none"
    /\ matches = <<>>
    /\ encoder \in Encoders
    /\ files = <<>>
    /\ lpc = "none"
    /\ job = "none"
    /\ idx = 0
    /\ processed = 0
    /\ cursor = 0
    /\ picked = 0
    /\ logs = <<>>
    /\ loopExc = "none"
    /\ attempts = <<>>
    /\ outFiles = {}
    /\ stopRequested = FALSE
    /\ stopSeg = 0
    /\ all_words \in FlowWords
    /\ \E sc \in FlowScripts : script_items = _parse_script(sc)
    /\ apc = "item"
    /\ item_idx = 1
    /\ word_ptr = 0
    /\ target = ""
    /\ collected = ""
    /\ current_words = <<>>
    /\ aligned = <<>>
    /\ used = <<>>
    /\ aerr = "none"
    /\ iters = 0
    /\ ratio_arg = <<>>

\* sk1 lines 374-417: matches = _match_words_to_script(...) is handed to
\* _cutting_loop, which takes the id of each segment from its tuple
Handover ==
    /\ wpc = "match"
    /\ apc = "done"
    /\ matches' = [k \in 1..Len(aligned) |-> aligned[k].vid]
    /\ wpc' = "loop"
    /\ lpc' = "head"
    /\ idx' = 1
    /\ UNCHANGED <<STOP_FLAG, mode, runResult, encoder, files, job, processed,
                   cursor, picked, logs, loopExc, attempts, outFiles,
                   stopRequested, stopSeg>>
    /\ UNCHANGED <<kernelVars, alignVars, wrapperVars, textVars>>
    /\ UNCHANGED <<managerVars, configVars, loggerVars>>

FlowNext ==
    \/ ItemStart
    \/ InnerStep
    \/ ItemEnd
    \/ AlignReturn
    \/ Handover
    \/ LoopHead
    \/ RunnerBegin
    \/ RunnerEnd
    \/ AfterLoop
    \/ OnLoopException
    \/ KEntry
    \/ KSpawn
    \/ KLoopTop
    \/ KRead
    \/ KFinal
    \/ ProcWrite
    \/ ProcClose
    \/ ProcExit

FlowSpec == FlowInit /\ [][FlowNext]_vars

(***************************************************************************)
(* ImageSpec: _image_flow_loop from its first iteration on, over three     *)
(* visual files of which some are not readable. What ffprobe says of a     *)
(* file is read again at every probe: a file can stop being readable       *)
(* while the loop runs. No cancellation is requested.                      *)
(***************************************************************************)
\* the readability of the sorted visual files when the run starts
ImageFiles == {<<TRUE, TRUE, TRUE>>, <<TRUE, FALSE, TRUE>>, <<FALSE, FALSE, TRUE>>}

\* sk3 lines 733-750: _image_flow_loop is called with start_idx, the first
\* readable file
ImageInit ==
    /\ KernelInit
    /\ WrapperIdle
    /\ ManagerHanded
    /\ ConfigIdle
    /\ LoggerIdle
    /\ TextIdle
    /\ AlignIdle
    /\ STOP_FLAG = FALSE
    /\ mode = "sk3"
    /\ wpc = "loop"
    /\ runResult = "none"
    /\ matches = <<1, 2, 3>>
    /\ encoder \in Encoders
    /\ files \in ImageFiles
    /\ lpc = "head"
    /\ job = "none"
    /\ idx = 1
    /\ processed = 0
    /\ cursor = StartIdx(files)
    /\ picked = 0
    /\ logs = <<>>
    /\ loopExc = "none"
    /\ attempts = <<>>
    /\ outFiles = {}
    /\ stopRequested = FALSE
    /\ stopSeg = 0

\* _ffprobe_has_video_stream answers for the file as it is when probed: a
\* file that was readable is not any more (removed, truncated, replaced)
ProbeTurns ==
    /\ wpc = "loop"
    /\ mode = "sk3"
    /\ lpc = "head"
    /\ \E i \in 1..Len(files) :
         /\ files[i]
         /\ files' = [files EXCEPT ![i] = FALSE]
    /\ UNCHANGED <<STOP_FLAG, mode, wpc, runResult, matches, encoder, lpc, job,
                   idx, processed, cursor, picked, logs, loopExc, attempts,
                   outFiles, stopRequested, stopSeg>>
    /\ UNCHANGED <<kernelVars, alignVars, wrapperVars, textVars>>
    /\ UNCHANGED <<managerVars, configVars, loggerVars>>

ImageNext ==
    \/ LoopHead
    \/ RunnerBegin
    \/ RunnerEnd
    \/ AfterLoop
    \/ OnLoopException
    \/ ProbeTurns
    \/ KEntry
    \/ KSpawn
    \/ KLoopTop
    \/ KRead
    \/ KFinal
    \/ ProcWrite
    \/ ProcClose
    \/ ProcExit

ImageSpec == ImageInit /\ [][ImageNext]_vars

(***************************************************************************)
(* CacheSpec: _dev_transcribe_pipeline called again and again in one       *)
(* process, with any key and with caching on or off, and                   *)
(* clear_model_cache called between the calls.                             *)
(***************************************************************************)
CacheInit ==
    /\ KernelInit
    /\ PipelineIdle
    /\ AlignIdle
    /\ WrapperIdle
    /\ ManagerIdle
    /\ ConfigIdle
    /\ LoggerIdle
    /\ TextIdle

\* process_task.py lines 1015-1112: one call of _dev_transcribe_pipeline
Transcribe ==
    /\ calls < MaxCalls
    /\ \E key \in Keys, keep \in BOOLEAN, loaded \in BOOLEAN :
         LET r == _dev_transcribe_pipeline(MODEL_CACHE, loads, key, keep, loaded)
         IN  /\ MODEL_CACHE' = r.cache
             /\ loads' = r.loads
             /\ tlast' = CallRecord(MODEL_CACHE, key, keep, r)
    /\ calls' = calls + 1
    /\ UNCHANGED handover
    /\ UNCHANGED <<kernelVars, pipelineVars, alignVars, wrapperVars, textVars>>
    /\ UNCHANGED <<configVars, loggerVars>>

\* core/model_manager.clear_model_cache is called
ClearCache ==
    /\ MODEL_CACHE' = clear_model_cache(MODEL_CACHE)
    /\ tlast' = [kind |-> "clear"]
    /\ UNCHANGED <<loads, calls, handover>>
    /\ UNCHANGED <<kernelVars, pipelineVars, alignVars, wrapperVars, textVars>>
    /\ UNCHANGED <<configVars, loggerVars>>

CacheNext ==
    \/ Transcribe
    \/ ClearCache

CacheSpec == CacheInit /\ [][CacheNext]_vars

(***************************************************************************)
(* LoggerSpec: async_logger alone: a producer that calls emit_async at any *)
(* time, the consumer thread, and one call of shutdown().                  *)
(***************************************************************************)
LoggerInit ==
    /\ KernelInit
    /\ PipelineIdle
    /\ AlignIdle
    /\ WrapperIdle
    /\ ManagerIdle
    /\ ConfigIdle
    /\ LoggerIdle
    /\ TextIdle

LoggerNext ==
    \/ emit_async
    \/ WorkerGet
    \/ WorkerTimeout
    \/ WorkerEmpty
    \/ WorkerWrite
    \/ ShutdownFlag
    \/ ShutdownPut
    \/ ShutdownJoin

LoggerSpec == LoggerInit /\ [][LoggerNext]_vars

\* the consumer thread is scheduled again and again, and its print returns
\* or raises; the producer and the caller of shutdown are obliged to nothing
FairLoggerSpec == LoggerSpec /\ WF_vars(WorkerStep)

(***************************************************************************)
(* KernelSpec: execute_safe called directly, with any arguments.           *)
(***************************************************************************)
KCall ==
    /\ kpc = "idle"
    /\ \E cmd \in Cmds, cwd \in {NoCwd, "app_root"}, timeout \in Timeouts,
          stream \in BOOLEAN, check \in BOOLEAN :
         BeginCall(cmd, cwd, timeout, stream, check)
    /\ UNCHANGED <<pipelineVars, alignVars, wrapperVars, textVars>>
    /\ UNCHANGED <<managerVars, configVars, loggerVars>>

\* The caller takes the result
KReturn ==
    /\ kpc = "done"
    /\ EndCall
    /\ UNCHANGED <<pipelineVars, alignVars, wrapperVars, textVars>>
    /\ UNCHANGED <<managerVars, configVars, loggerVars>>

KernelNext ==
    \/ KCall
    \/ KEntry
    \/ KSpawn
    \/ KLoopTop
    \/ KRead
    \/ KCommunicate
    \/ KRunDone
    \/ KRunTimeout
    \/ KFinal
    \/ KReturn
    \/ ProcWrite
    \/ ProcClose
    \/ ProcExit
    \/ Tick
    \/ KernelSetStop

KernelSpec == Init /\ [][KernelNext]_vars

\* The thread inside execute_safe keeps running; the process and the clock
\* are not obliged to do anything
FairKernelSpec == KernelSpec /\ WF_vars(KernelStep)

(***************************************************************************)
(* StreamSpec: execute_safe in stream mode without timeout, no stop being  *)
(* requested, on a process that writes more lines to stderr than the pipe  *)
(* holds. The thread inside execute_safe keeps running and the process     *)
(* exits at some time.                                                     *)
(***************************************************************************)
\* the lines such a process writes at most
LongOutput == PipeCap + 2

\* execute_safe(cmd, cwd=app_root), as run_ffmpeg_fast calls it, or with
\* check=False
KCallStream ==
    /\ kpc = "idle"
    /\ \E cmd \in Cmds, check \in BOOLEAN :
         BeginCall(cmd, "app_root", NoTimeout, TRUE, check)
    /\ UNCHANGED <<pipelineVars, alignVars, wrapperVars, textVars>>
    /\ UNCHANGED <<managerVars, configVars, loggerVars>>

\* the process writes one more line to stderr; a full pipe blocks it
ProcWriteLong ==
    /\ proc = "running"
    /\ kpc \in {"looptop", "read"}
    /\ Len(written) < LongOutput
    /\ Len(pipe) < PipeCap
    /\ pipe' = Append(pipe, StderrLine(Len(written) + 1))
    /\ written' = Append(written, StderrLine(Len(written) + 1))
    /\ UNCHANGED <<kpc, kargs, _STOP_FLAG, proc, procRc, stderr_acc, elapsed,
                   termSent, killed, koutcome, lastFailed>>
    /\ UNCHANGED <<pipelineVars, alignVars, wrapperVars, textVars>>
    /\ UNCHANGED <<managerVars, configVars, loggerVars>>

StreamNext ==
    \/ KCallStream
    \/ KEntry
    \/ KSpawn
    \/ KLoopTop
    \/ KRead
    \/ KFinal
    \/ KReturn
    \/ ProcWriteLong
    \/ ProcClose
    \/ ProcExit

StreamSpec ==
    /\ Init
    /\ [][StreamNext]_vars
    /\ WF_vars(KernelStep)
    /\ WF_vars(ProcExit)

(***************************************************************************)
(* RunnerSpec: _cutting_loop of a run whose CONFIG["video_source_dir"] is  *)
(* one of VideoDirs, with run_ffmpeg_fast, execute_safe and the stop       *)
(* requests.                                                               *)
(***************************************************************************)
\* the folders the user may have chosen for the source videos
VideoDirs == {"videos", "stopped_takes"}

\* sk1 lines 396-417: _cutting_loop is called with CONFIG["video_source_dir"]
RunnerInit ==
    /\ KernelInit
    /\ WrapperIdle
    /\ ManagerHanded
    /\ LoggerIdle
    /\ TextIdle
    /\ AlignIdle
    /\ video_source_dir \in VideoDirs
    /\ STOP_FLAG = FALSE
    /\ mode = "sk1"
    /\ wpc = "loop"
    /\ runResult = "none"
    /\ matches \in {<<1>>, <<1, 2>>}
    /\ encoder \in Encoders
    /\ files = <<>>
    /\ lpc = "head"
    /\ job = "none"
    /\ idx = 1
    /\ processed = 0
    /\ cursor = 0
    /\ picked = 0
    /\ logs = <<>>
    /\ loopExc = "none"
    /\ attempts = <<>>
    /\ outFiles = {}
    /\ stopRequested = FALSE
    /\ stopSeg = 0

RunnerNext ==
    \/ LoopHead
    \/ RunnerBegin
    \/ RunnerEnd
    \/ AfterLoop
    \/ OnLoopException
    \/ KEntry
    \/ KSpawn
    \/ KLoopTop
    \/ KRead
    \/ KFinal
    \/ ProcWrite
    \/ ProcClose
    \/ ProcExit
    \/ EngineSetStop
    \/ SafeKernelSetStop
    \/ ManagerSetStop

RunnerSpec == RunnerInit /\ [][RunnerNext]_vars

(***************************************************************************)
(* RerunSpec: a run that is started after an earlier run has ended. The    *)
(* modules stay loaded between runs, so the engine's STOP_FLAG and         *)
(* safe_kernel._STOP_FLAG are as the earlier run left them: each of the    *)
(* four combinations is the end of a run of Spec (no stop; a stop through  *)
(* the engine; a stop through the kernel that a job met; a stop through    *)
(* the kernel after the last job). stopRequested and stopSeg record the    *)
(* requests made since the new run began.                                  *)
(***************************************************************************)
RerunInit ==
    /\ STOP_FLAG \in BOOLEAN
    /\ _STOP_FLAG \in BOOLEAN
    /\ kpc = "idle"
    /\ kargs = NoArgs
    /\ proc = "none"
    /\ procRc = 0
    /\ pipe = <<>>
    /\ written = <<>>
    /\ stderr_acc = <<>>
    /\ elapsed = 0
    /\ termSent = FALSE
    /\ killed = FALSE
    /\ koutcome = NoOutcome
    /\ lastFailed = [d \in Dirs |-> NoFile]
    /\ mode = "sk1"
    /\ wpc = "idle"
    /\ runResult = "none"
    /\ matches = <<>>
    /\ encoder = SoftwareEncoder
    /\ files = <<>>
    /\ lpc = "none"
    /\ job = "none"
    /\ idx = 0
    /\ processed = 0
    /\ cursor = 0
    /\ picked = 0
    /\ logs = <<>>
    /\ loopExc = "none"
    /\ attempts = <<>>
    /\ outFiles = {}
    /\ stopRequested = FALSE
    /\ stopSeg = 0
    /\ AlignIdle
    /\ WrapperIdle
    /\ ManagerIdle
    /\ ConfigIdle
    /\ LoggerIdle
    /\ TextIdle

RerunSpec == RerunInit /\ [][Next]_vars

(***************************************************************************)
(* Claims about the visual cursor, checked under ImageSpec.                *)
(***************************************************************************)
\* the file probed by the probe made with the cursor at c
ProbedAt(c) == (c % Len(files)) + 1

\* the loop has just had the result of a successful audio job
AudioSucceeded ==
    /\ wpc = "loop" /\ mode = "sk3" /\ lpc = "wait" /\ job = "audio"
    /\ lpc' # "wait"
    /\ koutcome.kind = "RETURN"

\* C31: the cursor moves only in the probing of a segment whose audio job
\* succeeded: one file per probe, modulo the number of files, from where
\* the last probing stopped, at most len(files) probes, up to the first
\* readable file, which is picked and given to the video job. If no file is
\* readable the segment is logged as failed, no video job is launched and
\* the loop goes on with the next segment.
C31_RoundRobinCursor ==
    [][/\ cursor' # cursor => AudioSucceeded
       /\ AudioSucceeded =>
            /\ cursor' - cursor \in 1..Len(files)
            /\ \A c \in cursor..(cursor' - 2) : ~files[ProbedAt(c)]
            /\ IF files[ProbedAt(cursor' - 1)]
               THEN /\ picked' = ProbedAt(cursor' - 1)
                    /\ lpc' = "call" /\ job' = "hw" /\ idx' = idx
               ELSE /\ cursor' - cursor = Len(files)
                    /\ logs' = Append(logs, [seg |-> idx, kind |-> "NO_VISUAL"])
                    /\ lpc' = "head" /\ job' = "none" /\ idx' = idx + 1
                    /\ processed' = processed
                    /\ attempts' = Append(attempts, [seg |-> idx, job |-> "audio",
                                                     res |-> "ok", launched |-> TRUE])]_vars

\* the second segment skipped an unreadable file, the third probed every
\* file once, wrapping around, found none readable and was logged; the loop
\* went on
C31_Witness ==
    /\ Len(logs) = 3
    /\ logs[1].kind = "AUDIO_IMAGE"
    /\ logs[2].kind = "AUDIO_IMAGE"
    /\ logs[3] = [seg |-> 3, kind |-> "NO_VISUAL"]
    /\ cursor = 6
    /\ lpc = "returned"

(***************************************************************************)
(* Claims about the model cache, checked under CacheSpec.                  *)
(***************************************************************************)
\* the cache holds a model loaded for exactly this key
CachedFor(key) ==
    /\ MODEL_CACHE.model # NoModel
    /\ <<MODEL_CACHE.model_name, MODEL_CACHE.device, MODEL_CACHE.compute_type>>
          = <<key.model_name, key.device, key.compute_type>>

\* C34: a call with caching on and the key of the cached entry calls no
\* loader, uses the cached model and leaves the cache as it is; a call with
\* caching on and any other key calls the loader once and, when the loader
\* returns, leaves exactly the new key and the new model in the cache;
\* clear_model_cache leaves the cache empty, so that the next call loads.
C34_CacheHitMiss ==
    [][/\ (calls' = calls + 1 /\ tlast'.keep) =>
            IF CachedFor(tlast'.key)
            THEN /\ loads' = loads
                 /\ tlast'.model = MODEL_CACHE.model
                 /\ MODEL_CACHE' = MODEL_CACHE
            ELSE /\ loads' = loads + 1
                 /\ ~tlast'.raised =>
                       /\ tlast'.model = loads'
                       /\ MODEL_CACHE' = [model |-> loads',
                                          model_name |-> tlast'.key.model_name,
                                          device |-> tlast'.key.device,
                                          compute_type |-> tlast'.key.compute_type]
       /\ (tlast'.kind = "clear" /\ tlast' # tlast) => MODEL_CACHE' = EmptyCache
       /\ (calls' = calls + 1 /\ MODEL_CACHE = EmptyCache) => loads' = loads + 1]_vars

\* the third call, with another device than the entry of the first, made
\* with caching on, replaced the entry; one of the three calls was a hit
C34_Witness ==
    /\ calls = 3
    /\ loads = 2
    /\ tlast.kind = "transcribe"
    /\ tlast.keep
    /\ tlast.before.model = 1
    /\ tlast.before.model_name = tlast.key.model_name
    /\ tlast.before.device # tlast.key.device
    /\ MODEL_CACHE.model = 2
    /\ MODEL_CACHE.device = tlast.key.device

(***************************************************************************)
(* Claims about async_logger, checked under LoggerSpec and FairLoggerSpec. *)
(***************************************************************************)
\* the messages the consumer has printed
Written == {sys_stdout[i] : i \in 1..Len(sys_stdout)}

\* the messages the consumer is done with
Handled == Written \cup dropped

\* C35: emit_async can always be made, whatever the consumer does; the lines
\* printed are in the order of the emit_async calls, no message is printed
\* twice and none is passed over: the messages handled are the first ones
\* enqueued, and each was printed unless its write raised; a write that
\* raises leaves the consumer in its loop; and until shutdown is called
\* every message enqueued is handled in the end.
C35_AsyncRelay ==
    /\ [](emitted < MaxMsgs => ENABLED emit_async)
    /\ [](\A i, j \in 1..Len(sys_stdout) : i < j => sys_stdout[i] < sys_stdout[j])
    /\ [](/\ Written \cap dropped = {}
          /\ Handled = 1..Cardinality(Handled))
    /\ [][dropped' # dropped => wkpc' = "get"]_vars
    /\ \A m \in 1..MaxMsgs : (emitted >= m) ~> (m \in Handled \/ _shutdown)

\* the write of the second of three messages raised, the third was printed
\* after it, while the producer was not held up by anything
C35_Witness ==
    /\ sys_stdout = <<1, 3>>
    /\ dropped = {2}
    /\ ~_shutdown

\* C38: when the consumer thread has ended, every message enqueued before
\* shutdown() was called has been handled by it (printed, or its write
\* raised).
C38_DrainBeforeExit ==
    wkpc = "done" => \A m \in 1..shutAt : m \in Handled

(***************************************************************************)
(* Claims about the stream mode of execute_safe, checked under StreamSpec. *)
(***************************************************************************)
\* the process cannot write: the pipe is full
WriterBlocked == proc = "running" /\ Len(pipe) = PipeCap

\* C36: a call in stream mode, with no stop and no timeout, on a process
\* that writes more lines than the pipe holds and then exits: a writer
\* blocked on the full pipe is released by the reading loop, the call ends,
\* by a return or by the error of the exit code, and the stderr it carries
\* is every line the process wrote, in the order written.
C36_StreamDrains ==
    /\ WriterBlocked ~> ~WriterBlocked
    /\ (kpc = "entry") ~> (kpc = "done")
    /\ []((kpc = "done" /\ koutcome.kind \in {"RETURN", "FFMPEG CRASHED"}) =>
            /\ stderr_acc = written
            /\ koutcome.stderr = clip(JoinLines(written), ClipDefault))
    /\ [](kpc = "done" => koutcome.kind \in {"RETURN", "FFMPEG CRASHED", "CMD NOT FOUND"})

\* the call returned after the process wrote two lines more than the pipe
\* holds, all of them captured
C36_Witness ==
    /\ kpc = "done"
    /\ koutcome.kind = "RETURN"
    /\ Len(written) = PipeCap + 2
    /\ koutcome.stderr = JoinLines(written)

(***************************************************************************)
(* Claims about the aligner, checked under AlignSpec.                      *)
(***************************************************************************)
\* every word index of an earlier segment is below every one of a later segment
UsedIncreasing(u) ==
    \A i, j \in 1..Len(u) :
        i < j => \A x \in 1..Len(u[i]), y \in 1..Len(u[j]) : u[i][x] < u[j][y]

\* C1: the word cursor never decreases, and the word indices consumed by
\* successive emitted segments are disjoint and increasing (no re-use, no
\* look-back), for any word list and any script.
C1_MonotonicCursor ==
    [][word_ptr' >= word_ptr /\ UsedIncreasing(used')]_vars

C1_Witness ==
    /\ apc = "done"
    /\ used = <<<<1, 2>>, <<3>>>>
    /\ word_ptr = 3

EmptyTarget ==
    /\ apc = "item"
    /\ item_idx <= Len(script_items)
    /\ _clean_text(script_items[item_idx].text) = ""

\* C16: an item whose normalized text is empty emits nothing and leaves the
\* word cursor and the emitted segments as they are, and the loop goes to the
\* next item; an item that starts accumulating starts at the cursor it finds,
\* with an empty buffer.
C16_EmptyTargetSkipped ==
    [][/\ EmptyTarget =>
             /\ word_ptr' = word_ptr
             /\ aligned' = aligned
             /\ used' = used
             /\ item_idx' = item_idx + 1
             /\ apc' = "item"
       /\ (apc = "item" /\ apc' = "inner") =>
             /\ word_ptr' = word_ptr
             /\ collected' = ""
             /\ current_words' = <<>>]_vars

\* the first item was skipped for its empty text and the second one was
\* matched from the first word on
C16_Witness ==
    /\ apc = "done"
    /\ Len(script_items) = 2
    /\ _clean_text(script_items[1].text) = ""
    /\ Len(aligned) = 1
    /\ aligned[1].vid = 2
    /\ used = <<<<1, 2>>>>

\* C17: the words of every list of the model are in time order (WordAt), and
\* the start times of the segments are non-decreasing in output order.
C17_StartsNonDecreasing ==
    \A k \in 1..(Len(aligned) - 1) : aligned[k].s_time <= aligned[k + 1].s_time

\* two segments were returned, the second starting later than the first
C17_Witness ==
    /\ apc = "done"
    /\ Len(aligned) = 2
    /\ aligned[1].s_time < aligned[2].s_time

\* what is left to do: the items not yet finished, the words not yet taken
\* and the position inside the current item
PhaseRank ==
    CASE apc = "item" -> 3
      [] apc = "inner" -> 2
      [] apc = "emit" -> 1
      [] OTHER -> 0

Measure ==
    3 * (Len(script_items) + 1 - item_idx) + (Len(all_words) - word_ptr) + PhaseRank

\* C18: every step of the aligner lowers a measure that is a natural number,
\* so every run is finite; an iteration of the accumulation loop advances the
\* cursor by exactly one, and the iterations of a whole run are never more
\* than the words.
C18_Terminates ==
    /\ [](Measure >= 0 /\ iters <= Len(all_words) /\ word_ptr <= Len(all_words))
    /\ [][/\ Measure' < Measure
          /\ iters' # iters => (iters' = iters + 1 /\ word_ptr' = word_ptr + 1)]_vars

\* a run over two items that took every word of a list of three or more
C18_Witness ==
    /\ apc = "done"
    /\ Len(script_items) = 2
    /\ Len(all_words) >= 3
    /\ iters = Len(all_words)
    /\ Len(aligned) = 2

(***************************************************************************)
(* Claims about _parse_script and _clean_text, checked under TextSpec, and *)
(* the worked example of the aligner, checked under AlignSpec.             *)
(***************************************************************************)
\* the first position from i on at which a marker starts
RECURSIVE NextMarker(_, _)
NextMarker(s, i) ==
    IF i > Len(s) \/ MarkerEnd(s, i) # 0 THEN i ELSE NextMarker(s, i + 1)

\* the items the format describes: one per marker, in order, the text of an
\* item being all that stands between its marker and the next marker or the
\* end of the input, trimmed
RECURSIVE MarkerItems(_, _)
MarkerItems(s, i) ==
    LET m == NextMarker(s, i)
    IN  IF m > Len(s) THEN <<>>
        ELSE LET j == MarkerEnd(s, m)
                 n == NextMarker(s, j + 1)
             IN  <<[vid |-> int(SubSeq(s, m + 2, j - 1)),
                    text |-> strip(SubSeq(s, j + 1, n - 1))]>>
                 \o MarkerItems(s, n)

\* C13: _parse_script returns one item per marker, in order, its text being
\* everything up to the next marker or the end of the input, trimmed; a "["
\* that starts no marker is part of the text.
C13_OneItemPerMarker ==
    tpc # "start" => parsed = MarkerItems(txt, 1)

\* C14: _clean_text applied to its own result returns it unchanged.
C14_CleanIdempotent ==
    tpc = "done" => recleaned = cleaned

\* a text with capitals and punctuation was normalized twice
C14_Witness ==
    /\ tpc = "done"
    /\ txt = "Ab, Ab,"
    /\ cleaned = "ab ab"
    /\ recleaned = "ab ab"

\* C15: for the script "[V1] hello world [V2] goodbye now" and the words
\* hello (0.0-0.5), world (0.5-1.0), goodbye (1.2-1.7), now (1.7-2.0),
\* parsing and then matching returns (1, 0.0, 1.0, "hello world") and
\* (2, 1.2, 2.0, "goodbye now"), in that order.
C15_Example ==
    (apc = "done" /\ all_words = ExampleWords
                  /\ script_items = _parse_script(ExampleScript))
        => aligned = <<[vid |-> 1, s_time |-> 0, e_time |-> 10, text |-> "hello world"],
                       [vid |-> 2, s_time |-> 12, e_time |-> 20, text |-> "goodbye now"]>>

\* the run over the example has returned, every word taken
C15_Witness ==
    /\ apc = "done"
    /\ all_words = ExampleWords
    /\ script_items = <<[vid |-> 1, text |-> "hello world"],
                        [vid |-> 2, text |-> "goodbye now"]>>
    /\ used = <<<<1, 2>>, <<3, 4>>>>

\* the entries kept for segment k
FirstWord(k) == all_words[used[k][1]]

LastWord(k) == all_words[used[k][Len(used[k])]]

\* C23: the aligner does not fail; every segment starts at the start of the
\* first word kept for it (a word that has one) and ends at the end of the last one, or, when that
\* word has no valid end, a tenth of a second after the start.
C23_SegmentTimes ==
    /\ apc # "failed"
    /\ \A k \in DOMAIN aligned :
          /\ FirstWord(k).start # Missing => aligned[k].s_time = FirstWord(k).start
          /\ aligned[k].e_time = IF LastWord(k).end \in {Missing, Invalid}
                                 THEN aligned[k].s_time + 1
                                 ELSE LastWord(k).end

C25_HalfLengthBeforeRatio ==
    ratio_arg # <<>> => 2 * Len(ratio_arg[1]) >= Len(target)

\* a buffer longer than the cap
BeyondCap(buf) == Len(buf) > MAX_COLLECTED_LEN

\* C26: nothing is given to SequenceMatcher when the buffer is longer than
\* the cap; the iteration that takes the buffer over the cap ends the item
\* without a comparison, and the item then emits a segment over the words
\* kept for it.
C26_CapBeforeRatio ==
    /\ [](ratio_arg # <<>> => ~BeyondCap(collected) /\ ~BeyondCap(ratio_arg[1]))
    /\ []((apc \in {"inner", "emit"} /\ BeyondCap(collected))
             => (apc = "emit" /\ ratio_arg = <<>> /\ current_words # <<>>))
    /\ [][(apc = "emit" /\ BeyondCap(collected))
             => /\ Len(aligned') = Len(aligned) + 1
                /\ aligned'[Len(aligned')].vid = script_items[item_idx].vid
                /\ used' = Append(used, current_words)]_vars

\* the only word of an item took the buffer over the cap and the item
\* emitted its segment
C26_Witness ==
    /\ apc = "item"
    /\ BeyondCap(collected)
    /\ Len(aligned) = 1
    /\ used = <<<<1>>>>
    /\ ratio_arg = <<>>

(***************************************************************************)
(* Claims about the cutting loops and the cancellation, checked under Spec.*)
(***************************************************************************)
FallbackFailed(k) ==
    \E i \in 1..Len(attempts) :
        /\ attempts[i].seg = k
        /\ attempts[i].job \in {"aac", "sw"}
        /\ attempts[i].res # "ok"

Attempted(k) == \E i \in 1..Len(attempts) : attempts[i].seg = k

\* C2: when the video job of segment k has failed at both tiers and no stop
\* was requested, the run still ends as completed, the audio clip of
\* segment k is on disk and every segment after k was attempted; in the
\* video-cut loop and in the image-flow loop.
C2_VideoFailureStaysLocal ==
    \A k \in 1..Len(matches) :
        (wpc = "done" /\ ~stopRequested /\ FallbackFailed(k))
            => /\ runResult = "completed"
               /\ AudioOut(Vid(k)) \in outFiles
               /\ \A j \in (k + 1)..Len(matches) : Attempted(j)

AudioJobFails ==
    /\ wpc = "loop"
    /\ lpc \in {"call", "wait"}
    /\ job = "audio"
    /\ Len(attempts') = Len(attempts) + 1
    /\ attempts'[Len(attempts')].res # "ok"

\* C3: when the audio job of segment k fails, the loop logs the failure,
\* does not count the segment, launches no video job for it, and is at the
\* head of the loop for segment k+1; nothing leaves the loop.
C3_AudioFailureSkipsSegment ==
    [][AudioJobFails
          => /\ logs' = Append(logs, [seg |-> idx, kind |-> "AUDIO_FAILED"])
             /\ processed' = processed
             /\ lpc' = "head"
             /\ idx' = idx + 1
             /\ loopExc' = "none"
             /\ \A i \in 1..Len(attempts') :
                    attempts'[i].seg = idx => attempts'[i].job = "audio"]_vars

C3_Witness ==
    /\ ~stopRequested
    /\ Len(attempts) = 2
    /\ attempts[1] = [seg |-> 1, job |-> "audio", res |-> "FFMPEG CRASHED",
                      launched |-> TRUE]
    /\ attempts[2].seg = 2
    /\ attempts[2].job = "audio"
    /\ processed = 0
    /\ logs = <<[seg |-> 1, kind |-> "AUDIO_FAILED"]>>

\* C5: once a stop was requested while segment k was in progress, no later
\* segment is started (no job of a segment after k is called or running).
C5_NoSegmentAfterStop ==
    (stopSeg # 0 /\ SegmentInProgress) => idx = stopSeg

\* C6: there is one stop signal: after a cancellation request through any
\* set_stop_signal mutator during a run, the loop's stop_check and the
\* kernel's _is_stopped both observe it.
C6_OneStopSignal ==
    (RunActive /\ stopRequested) => (stop_check /\ _is_stopped)


\* the events of one type printed so far
EventCount(type) == Cardinality({i \in DOMAIN events : events[i] = type})

\* the script file of the run is not empty and holds no item
EmptyParse ==
    /\ mode \in Modes
    /\ txt # ""
    /\ _parse_script(txt) = <<>>

\* C12: a run whose non-empty script gives no item never enters the cutting
\* loop and never reports completion; once the script was read the run has
\* failed.
C12_EmptyParseFails ==
    EmptyParse =>
        /\ wpc # "loop"
        /\ runResult \notin {"completed", "returned"}
        /\ EventCount("complete") = 0
        /\ EventCount("result") = 0

\* the run raised out of its task function and the process has exited
RunFailed == exitCode # NotExited /\ runResult = "error"

\* C19: a run that failed at run level has printed exactly one event of
\* type "error" and the process exit status is not zero.
C19_OneErrorEvent ==
    RunFailed => (EventCount("error") = 1 /\ exitCode # 0)

\* the workflow saw the cancellation: it returned at the stop check after
\* the transcription, its loop ended on a set flag, or StopRequested came
\* out of a job
CancellationObserved ==
    /\ mode \in Modes
    /\ runResult \in {"stopped", "returned"}

\* C20: a run in which the cancellation was observed prints no error event
\* and is not reported as completed.
C20_StoppedReport ==
    (exitCode # NotExited /\ CancellationObserved) =>
        /\ EventCount("error") = 0
        /\ EventCount("complete") = 0
        /\ EventCount("result") = 0

\* attempt k ended with the error of _raise_cmd_not_found
LaunchError(k) == attempts[k].res = "CMD NOT FOUND"

\* C21: after a job could not be started, the loop treats nothing as a
\* failure of the segment: it writes no record for the segment, runs no job
\* of a later segment, and the run does not complete.
C21_LaunchErrorFatal ==
    \A k \in DOMAIN attempts :
        LaunchError(k) =>
            /\ \A l \in DOMAIN logs : logs[l].seg # attempts[k].seg
            /\ \A m \in DOMAIN attempts : m > k => attempts[m].seg = attempts[k].seg
            /\ runResult # "completed"

(***************************************************************************)
(* Claims about the order of the segments, checked under FlowSpec.         *)
(***************************************************************************)
\* the ids of the segments, taken in output order, are ids of script items
\* taken in script order, no item twice
RECURSIVE Embeds(_, _, _, _)
Embeds(segs, k, items, i) ==
    IF k > Len(segs) THEN TRUE
    ELSE IF i > Len(items) THEN FALSE
    ELSE IF segs[k].vid = items[i].vid /\ segs[k].text = items[i].text
         THEN Embeds(segs, k + 1, items, i + 1)
         ELSE Embeds(segs, k, items, i + 1)

\* C22: the segments the aligner returns follow the script items, at most
\* one per item; the jobs of the cutting loop and its records come segment
\* after segment in the order of the returned segments, each job writing the
\* file named after the id of its segment.
C22_ScriptOrder ==
    /\ Embeds(aligned, 1, script_items, 1)
    /\ wpc \in {"loop", "done"} => matches = [k \in 1..Len(aligned) |-> aligned[k].vid]
    /\ \A k \in DOMAIN attempts :
          /\ attempts[k].seg \in DOMAIN matches
          /\ k > 1 => attempts[k - 1].seg <= attempts[k].seg
    /\ \A l \in DOMAIN logs :
          /\ logs[l].seg \in DOMAIN matches
          /\ l > 1 => logs[l - 1].seg < logs[l].seg
    /\ \A f \in outFiles :
          \E k \in DOMAIN attempts :
              f \in {AudioOut(matches[attempts[k].seg]), VideoOut(matches[attempts[k].seg])}

\* a run over a script whose ids are not in numeric order cut its two
\* segments, the one with id 2 first
C22_Witness ==
    /\ wpc = "done"
    /\ runResult = "completed"
    /\ Len(aligned) = 2
    /\ matches = <<2, 1>>
    /\ Len(logs) = 2
    /\ AudioOut(2) \in outFiles
    /\ AudioOut(1) \in outFiles

\* the first video job of the mode and its retry
FirstVideoJob == IF mode = "sk1" THEN "copy" ELSE "hw"

RetryJob == IF mode = "sk1" THEN "aac" ELSE "sw"

\* C27: the jobs of a segment come in lifecycle order: the audio job opens
\* the segment; the video job directly follows the audio job of the same
\* segment, which succeeded; the retry directly follows the first video job
\* of the same segment, which failed. A segment so has at most three jobs.
C27_JobLifecycle ==
    \A k \in DOMAIN attempts :
        LET a == attempts[k]
        IN  CASE a.job = "audio" -> k = 1 \/ attempts[k - 1].seg < a.seg
              [] a.job = FirstVideoJob ->
                    /\ k > 1
                    /\ attempts[k - 1].seg = a.seg
                    /\ attempts[k - 1].job = "audio"
                    /\ attempts[k - 1].res = "ok"
              [] a.job = RetryJob ->
                    /\ k > 1
                    /\ attempts[k - 1].seg = a.seg
                    /\ attempts[k - 1].job = FirstVideoJob
                    /\ attempts[k - 1].res # "ok"
              [] OTHER -> FALSE

\* a segment of a video-cut run took its three jobs, the retry succeeding
C27_Witness ==
    /\ mode = "sk1"
    /\ Len(attempts) >= 3
    /\ attempts[1].job = "audio" /\ attempts[1].res = "ok"
    /\ attempts[2].job = "copy" /\ attempts[2].res = "FFMPEG CRASHED"
    /\ attempts[3].job = "aac" /\ attempts[3].res = "ok"
    /\ attempts[3].seg = 1

\* this step writes the record of a segment cut without video
LogsAudioOnly ==
    /\ Len(logs') = Len(logs) + 1
    /\ logs'[Len(logs')].kind = "AUDIO_ONLY"

\* C28: in video-cut mode a segment without source video is recorded as
\* audio-only after its audio job succeeded, counts as processed, raises
\* nothing, and the loop goes to the next segment; no video job is ever run
\* for it.
C28_MissingVideoAudioOnly ==
    /\ [][LogsAudioOnly =>
             /\ mode = "sk1"
             /\ logs'[Len(logs')].seg = idx
             /\ attempts'[Len(attempts')] =
                    [seg |-> idx, job |-> "audio", res |-> "ok", launched |-> TRUE]
             /\ processed' = processed + 1
             /\ idx' = idx + 1
             /\ lpc' = "head"
             /\ loopExc' = loopExc]_vars
    /\ [](\A l \in DOMAIN logs :
             logs[l].kind = "AUDIO_ONLY" =>
                 \A k \in DOMAIN attempts :
                     attempts[k].seg = logs[l].seg => attempts[k].job = "audio")

\* the first segment had no source video and the loop went on with the
\* audio job of the second
C28_Witness ==
    /\ mode = "sk1"
    /\ Len(logs) >= 1
    /\ logs[1] = [seg |-> 1, kind |-> "AUDIO_ONLY"]
    /\ processed >= 1
    /\ \E k \in DOMAIN attempts : attempts[k].seg = 2 /\ attempts[k].job = "audio"

\* cmd_copy as run_ffmpeg_fast runs it, its audio codec replaced by aac
CopyWithAac ==
    LET c0 == WithFfmpegPath(CopyCmd(Vid(idx), encoder))
    IN  [c0 EXCEPT ![IndexOf(c0, "-c:a") + 1] = "aac"]

\* C29: the command of the retry is cmd_copy with aac after -c:a and with
\* the pair -b:a 192k added, the flag directly before its value; nothing
\* else is changed.
C29_RetryCommand ==
    (wpc = "loop" /\ lpc = "wait" /\ job = "aac") =>
        \E i \in 1..(Len(kargs.cmd) - 1) :
            /\ kargs.cmd[i] = "-b:a"
            /\ kargs.cmd[i + 1] = "192k"
            /\ SubSeq(kargs.cmd, 1, i - 1) \o SubSeq(kargs.cmd, i + 2, Len(kargs.cmd))
                  = CopyWithAac

\* the argument that follows flag in cmd
ValueAfter(cmd, flag) == cmd[IndexOf(cmd, flag) + 1]

\* C30: in both modes the video job retried after a failure runs with the
\* software profile, libx264 and ultrafast.
C30_SoftwareRetry ==
    (wpc = "loop" /\ lpc = "wait" /\ job \in {"aac", "sw"}) =>
        /\ ValueAfter(kargs.cmd, "-c:v") = SoftwareEncoder[1]
        /\ ValueAfter(kargs.cmd, "-preset") = SoftwareEncoder[2]

\* the per-segment records of segment k in the log
RecordsOf(k) == {i \in 1..Len(logs) : logs[i].seg = k /\ logs[i].kind # "STOPPED"}

\* C32: every segment the loop started and is done with has exactly one
\* per-segment record in the log, whatever its audio and video jobs did.
C32_OneRecordPerSegment ==
    \A k \in 1..Len(matches) :
        (~stopRequested /\ Attempted(k) /\ (k < idx \/ wpc = "done"))
            => Cardinality(RecordsOf(k)) = 1

LoopJobs == [i \in 1..Len(attempts) |-> [seg |-> attempts[i].seg, job |-> attempts[i].job]]

\* C37: for the same segments and the same results of the jobs, the loop of
\* the worker job calls the jobs that _cutting_loop called, in the same
\* order, and ends as it did: completed, or left by an exception.
C37_WorkerSameLogic ==
    (wpc = "done" /\ mode = "sk1" /\ ~stopRequested /\ runResult \in {"completed", "error"})
        => /\ WorkerLoop(1, <<>>).jobs = LoopJobs
           /\ WorkerLoop(1, <<>>).ok = (runResult = "completed")

\* C39: StopRequested leaves the loop, and the run ends as stopped, only when
\* a stop was signalled (the engine's STOP_FLAG or the kernel's flag was set
\* by a stop request); a job that crashed with no stop signalled surfaces as
\* a failure, whatever its command line holds.
C39_StopOnlyWhenSignalled ==
    /\ loopExc = "StopRequested" => stopRequested
    /\ runResult = "stopped" => stopRequested

\* C40: in a run of process_workflow or process_image_flow started after a
\* stop of an earlier run, as long as no new stop is requested nothing is
\* cancelled: the loop's stop_check reports no stop, run_ffmpeg_fast refuses
\* no job, execute_safe raises STOPPED for no job, and the run does not end
\* as stopped.
C40_NewRunNotCancelled ==
    (wpc # "idle" /\ mode \in Modes /\ ~stopRequested)
        => /\ ~stop_check
           /\ \A i \in 1..Len(attempts) : attempts[i].res \notin {"STOPPED", "refused"}
           /\ \A i \in 1..Len(logs) : logs[i].kind # "STOPPED"
           /\ runResult \notin {"stopped", "returned"}

(***************************************************************************)
(* Claims about execute_safe, checked under KernelSpec / FairKernelSpec.   *)
(***************************************************************************)
InStreamLoop == kargs.stream /\ kpc \in {"looptop", "read"}

\* C4: in stream mode, once the stop flag is set while the external process
\* is running, the call eventually ends by raising STOPPED, whether or not
\* the process writes to its diagnostic stream.
C4_StopEndsRunningCall ==
    (InStreamLoop /\ ProcAlive /\ _STOP_FLAG)
        ~> (kpc = "done" /\ koutcome = Raised("STOPPED"))

\* C7: when the stop flag is set at the check that opens execute_safe, the
\* call raises STOPPED at once and no process has been spawned, in stream
\* and in non-stream mode.
C7_StopBeforeLaunch ==
    [][(kpc = "entry" /\ _STOP_FLAG /\ kpc' # "entry")
          => (kpc' = "done" /\ koutcome' = Raised("STOPPED") /\ proc' = "none")]_vars

C7_Witness ==
    /\ kpc = "done"
    /\ koutcome = Raised("STOPPED")
    /\ proc = "none"
    /\ ~kargs.stream

\* C8: in stream mode with a timeout, a process still running after the
\* timeout has elapsed makes the call raise TIMEOUT (unless a stop is
\* requested or the process ends by itself first), even when the process
\* writes nothing.
C8_TimeoutEndsRunningCall ==
    (InStreamLoop /\ ProcAlive /\ TimedOut /\ ~_STOP_FLAG)
        ~> (\/ kpc = "done" /\ koutcome = Raised("TIMEOUT")
            \/ _STOP_FLAG
            \/ ~ProcAlive)

FailureKinds == {"FFMPEG CRASHED", "TIMEOUT", "CMD NOT FOUND"}

\* C10: every failure outcome of execute_safe (non-zero exit, timeout,
\* command not found), in either mode, leaves the failing command line in
\* the last_failed_cmd artifact.
C10_FailureWritesArtifact ==
    (kpc = "done" /\ koutcome.kind \in FailureKinds)
        => lastFailed[BaseDir(kargs.cwd)] = JoinWith(kargs.cmd, " ")

====
